---------------------------- MODULE Spec2Model ----------------------------
(***************************************************************************)
(* A model of the Thinkorswim trade-string parser of options-tracker       *)
(* (src/src/utils/tradeParser.ts).  Strings are TLA+ strings, read one     *)
(* character at a time; every regular expression of the source is written  *)
(* as a term and run by the backtracking matcher below, so that the        *)
(* patterns can be compared with the source one by one.                    *)
(***************************************************************************)
EXTENDS Integers, Sequences, FiniteSets, TLC

(***************************************************************************)
(* Characters.                                                             *)
(***************************************************************************)
LowerLetters == "abcdefghijklmnopqrstuvwxyz"
UpperLetters == "ABCDEFGHIJKLMNOPQRSTUVWXYZ"
DigitChars == "0123456789"

CharAt(s, i) == SubSeq(s, i, i)

CharsOf(s) == {CharAt(s, k) : k \in 1..Len(s)}

\* \d
Digit == CharsOf(DigitChars)

\* [A-Z] under the i flag: a character is compared after case folding
Letter == CharsOf(UpperLetters)

\* \w (after case folding)
WordChar == Letter \cup Digit \cup {"_"}

\* \s, and the characters String.prototype.trim removes
WhiteSpace == {" ", "\t", "\n", "\r"}

UpperOf == [c \in CharsOf(LowerLetters) |->
              CharAt(UpperLetters, CHOOSE k \in 1..26 : CharAt(LowerLetters, k) = c)]

toUpperChar(c) == IF c \in DOMAIN UpperOf THEN UpperOf[c] ELSE c

\* the string as a tuple of case-folded characters (what a /i pattern compares)
Fold(s) == [k \in 1..Len(s) |-> toUpperChar(CharAt(s, k))]

\* the characters f gives for positions a..b of a text, joined
RECURSIVE Join(_, _, _)
Join(f(_), a, b) ==
  IF a > b THEN ""
  ELSE IF a = b THEN f(a)
  ELSE LET mid == (a + b) \div 2 IN Join(f, a, mid) \o Join(f, mid + 1, b)

\* String.prototype.toUpperCase
toUpperCase(s) == LET up(k) == toUpperChar(CharAt(s, k)) IN Join(up, 1, Len(s))

\* String.prototype.includes
includes(s, sub) == \E k \in 1..(Len(s) - Len(sub) + 1) : SubSeq(s, k, k + Len(sub) - 1) = sub

(***************************************************************************)
(* Regular expressions.  A pattern is one of                               *)
(*   <<"set", S>>       one character of S            [..], \d, \s, a      *)
(*   <<"not", S>>       one character not in S        [^..]                *)
(*   <<"lit", w>>       the characters of w in turn   BUY                  *)
(*   <<"seq", <<..>>>>  one pattern after the other                        *)
(*   <<"alt", <<..>>>>  the alternatives, left first  a|b                  *)
(*   <<"rep", p, m, n>> p greedily m..n times (n = Inf: no limit)  * + ? {m,n} *)
(*   <<"cap", p>>       a capturing group                                  *)
(*   <<"bol">>          ^                                                  *)
(*   <<"wb">>           \b                                                 *)
(* Match gives every way the pattern matches at a position, in the order   *)
(* a backtracking matcher tries them, each as <<next position, captures>>. *)
(***************************************************************************)
Inf == 0 - 1

Set(S) == <<"set", S>>
NotSet(S) == <<"not", S>>
Lit(w) == <<"lit", Fold(w)>>
Cat(ps) == <<"seq", ps>>
Alt(ps) == <<"alt", ps>>
Rep(p, m, n) == <<"rep", p, m, n>>
Star(p) == Rep(p, 0, Inf)
Plus(p) == Rep(p, 1, Inf)
Opt(p) == Rep(p, 0, 1)
Cap(p) == <<"cap", p>>
Bol == <<"bol">>
Wb == <<"wb">>
Words(ws) == Alt([k \in 1..Len(ws) |-> Lit(ws[k])])

IsWordAt(u, i) == i >= 1 /\ i <= Len(u) /\ u[i] \in WordChar

LitAt(w, u, i) == /\ i + Len(w) - 1 <= Len(u)
                  /\ \A k \in 1..Len(w) : u[i + k - 1] = w[k]

RECURSIVE Match(_, _, _, _)
RECURSIVE MatchSeq(_, _, _, _, _)
RECURSIVE BindSeq(_, _, _, _, _)
RECURSIVE MatchAlt(_, _, _, _, _)
RECURSIVE MatchRep(_, _, _, _, _, _, _)
RECURSIVE BindRep(_, _, _, _, _, _, _, _)

Match(p, u, i, caps) ==
  CASE p[1] = "set" -> IF i <= Len(u) /\ u[i] \in p[2] THEN << <<i + 1, caps>> >> ELSE << >>
    [] p[1] = "not" -> IF i <= Len(u) /\ u[i] \notin p[2] THEN << <<i + 1, caps>> >> ELSE << >>
    [] p[1] = "lit" -> IF LitAt(p[2], u, i) THEN << <<i + Len(p[2]), caps>> >> ELSE << >>
    [] p[1] = "seq" -> MatchSeq(p[2], 1, u, i, caps)
    [] p[1] = "alt" -> MatchAlt(p[2], 1, u, i, caps)
    [] p[1] = "rep" -> MatchRep(p[2], p[3], p[4], 0, u, i, caps)
    [] p[1] = "cap" -> LET inner == Match(p[2], u, i, caps)
                       IN  [k \in 1..Len(inner) |->
                              <<inner[k][1], Append(inner[k][2], <<i, inner[k][1] - 1>>)>>]
    [] p[1] = "bol" -> IF i = 1 THEN << <<i, caps>> >> ELSE << >>
    [] p[1] = "wb"  -> IF IsWordAt(u, i - 1) # IsWordAt(u, i) THEN << <<i, caps>> >> ELSE << >>

MatchSeq(ps, k, u, i, caps) ==
  IF k > Len(ps) THEN << <<i, caps>> >>
  ELSE BindSeq(Match(ps[k], u, i, caps), 1, ps, k + 1, u)

BindSeq(res, n, ps, k, u) ==
  IF n > Len(res) THEN << >>
  ELSE MatchSeq(ps, k, u, res[n][1], res[n][2]) \o BindSeq(res, n + 1, ps, k, u)

MatchAlt(ps, k, u, i, caps) ==
  IF k > Len(ps) THEN << >>
  ELSE Match(ps[k], u, i, caps) \o MatchAlt(ps, k + 1, u, i, caps)

\* greedy: one more repetition is tried before stopping here
MatchRep(p, m, n, done, u, i, caps) ==
  LET more == IF n # Inf /\ done >= n THEN << >>
              ELSE BindRep(Match(p, u, i, caps), 1, p, m, n, done + 1, u, i)
      stop == IF done >= m THEN << <<i, caps>> >> ELSE << >>
  IN  more \o stop

BindRep(res, k, p, m, n, done, u, i) ==
  IF k > Len(res) THEN << >>
  ELSE (IF res[k][1] > i THEN MatchRep(p, m, n, done, u, res[k][1], res[k][2]) ELSE << >>)
       \o BindRep(res, k + 1, p, m, n, done, u, i)

\* Whether a pattern can match without reading a character, and the
\* characters a match that reads one can begin with: a search tries only the
\* positions that hold one of them.
RECURSIVE Nullable(_)
RECURSIVE NullableFrom(_, _)
Nullable(p) ==
  CASE p[1] \in {"set", "not", "lit"} -> FALSE
    [] p[1] = "seq" -> NullableFrom(p[2], 1)
    [] p[1] = "alt" -> \E k \in 1..Len(p[2]) : Nullable(p[2][k])
    [] p[1] = "rep" -> p[3] = 0 \/ Nullable(p[2])
    [] p[1] = "cap" -> Nullable(p[2])
    [] p[1] \in {"bol", "wb"} -> TRUE

NullableFrom(ps, k) == k > Len(ps) \/ (Nullable(ps[k]) /\ NullableFrom(ps, k + 1))

\* a class [^..] may begin with any character
RECURSIVE OpenFirst(_)
OpenFirst(p) ==
  CASE p[1] = "not" -> TRUE
    [] p[1] \in {"set", "lit", "bol", "wb"} -> FALSE
    [] p[1] = "seq" -> \E k \in 1..Len(p[2]) : OpenFirst(p[2][k]) /\ NullableFrom(SubSeq(p[2], 1, k - 1), 1)
    [] p[1] = "alt" -> \E k \in 1..Len(p[2]) : OpenFirst(p[2][k])
    [] p[1] \in {"rep", "cap"} -> OpenFirst(p[2])

RECURSIVE FirstChars(_)
FirstChars(p) ==
  CASE p[1] = "set" -> p[2]
    [] p[1] = "lit" -> {p[2][1]}
    [] p[1] \in {"not", "bol", "wb"} -> {}
    [] p[1] = "seq" -> UNION {FirstChars(p[2][k]) :
                               k \in {j \in 1..Len(p[2]) : NullableFrom(SubSeq(p[2], 1, j - 1), 1)}}
    [] p[1] = "alt" -> UNION {FirstChars(p[2][k]) : k \in 1..Len(p[2])}
    [] p[1] \in {"rep", "cap"} -> FirstChars(p[2])

\* new RegExp(...): the pattern, ready to be searched for
RegExp(p) == [pattern |-> p, anywhere |-> Nullable(p) \/ OpenFirst(p), first |-> FirstChars(p)]

CanStart(re, u, i) == re.anywhere \/ (i <= Len(u) /\ u[i] \in re.first)

NoMatch == [found |-> FALSE]

\* the leftmost match at or after position from: where it starts, where it
\* ends, and the text of each capturing group
ExecFrom(re, s, u, from) ==
  LET starts == {i \in from..(Len(u) + 1) :
                   CanStart(re, u, i) /\ Match(re.pattern, u, i, << >>) # << >>}
  IN  IF starts = {} THEN NoMatch
      ELSE LET index == CHOOSE i \in starts : \A j \in starts : i <= j
               res == Match(re.pattern, u, index, << >>)
           IN  [found |-> TRUE, index |-> index, next |-> res[1][1],
                group |-> [g \in 1..Len(res[1][2]) |->
                             SubSeq(s, res[1][2][g][1], res[1][2][g][2])]]

\* String.prototype.match without the g flag, RegExp.prototype.test
Exec(re, s) == ExecFrom(re, s, Fold(s), 1)

Test(re, s) == Exec(re, s).found

\* String.prototype.search: the 0-based index of the first match, or -1
Search(re, s) == LET m == Exec(re, s) IN IF m.found THEN m.index - 1 ELSE 0 - 1

\* the loop `while ((m = pattern.exec(s)) !== null)` of a g-flag pattern:
\* every match left to right, each search starting where the last one ended
RECURSIVE ExecAllFrom(_, _, _, _)
ExecAllFrom(re, s, u, from) ==
  LET m == ExecFrom(re, s, u, from)
  IN  IF ~m.found THEN << >>
      ELSE <<m>> \o ExecAllFrom(re, s, u, IF m.next = m.index THEN m.next + 1 ELSE m.next)

ExecAll(re, s) == ExecAllFrom(re, s, Fold(s), 1)

(***************************************************************************)
(* Numbers and dates.                                                      *)
(***************************************************************************)
DigitValue(c) == (CHOOSE k \in 1..10 : CharAt(DigitChars, k) = c) - 1

IsDigit(s, i) == i <= Len(s) /\ CharAt(s, i) \in Digit

\* the end of the run of digits that starts at position i (i - 1: no digit)
RECURSIVE DigitsEnd(_, _)
DigitsEnd(s, i) == IF IsDigit(s, i) THEN DigitsEnd(s, i + 1) ELSE i - 1

RECURSIVE DigitsValue(_, _, _)
DigitsValue(s, i, j) == IF j < i THEN 0
                        ELSE 10 * DigitsValue(s, i, j - 1) + DigitValue(CharAt(s, j))

NaN == [nan |-> TRUE]

isNaN(v) == v = NaN

Abs(n) == IF n < 0 THEN 0 - n ELSE n

\* parseInt(s, 10) reads an optional sign and the digits that follow it;
\* without a digit the result is NaN
parseIntIsNaN(s) ==
  LET first == IF Len(s) >= 1 /\ CharAt(s, 1) \in {"+", "-"} THEN 2 ELSE 1
  IN  DigitsEnd(s, first) < first

parseInt(s) ==
  LET signed == Len(s) >= 1 /\ CharAt(s, 1) \in {"+", "-"}
      first == IF signed THEN 2 ELSE 1
      mag == DigitsValue(s, first, DigitsEnd(s, first))
  IN  IF signed /\ CharAt(s, 1) = "-" THEN 0 - mag ELSE mag

\* A decimal number m / 10^e, without trailing zeros in the fraction
RECURSIVE Decimal(_, _)
Decimal(m, e) == IF e > 0 /\ m % 10 = 0 THEN Decimal(m \div 10, e - 1)
                 ELSE [m |-> m, e |-> e]

Zero == Decimal(0, 0)

\* parseFloat: the longest prefix sign? digits* (. digits*)? holding a digit
parseFloat(s) ==
  LET neg == Len(s) >= 1 /\ CharAt(s, 1) = "-"
      first == IF neg THEN 2 ELSE 1
      intEnd == DigitsEnd(s, first)
      dot == intEnd + 1 <= Len(s) /\ CharAt(s, intEnd + 1) = "."
      fracEnd == IF dot THEN DigitsEnd(s, intEnd + 2) ELSE intEnd
      fracLen == IF dot THEN fracEnd - (intEnd + 1) ELSE 0
      intVal == DigitsValue(s, first, intEnd)
      fracVal == IF dot THEN DigitsValue(s, intEnd + 2, fracEnd) ELSE 0
      mag == intVal * (10 ^ fracLen) + fracVal
  IN  IF intEnd < first /\ fracLen = 0 THEN NaN
      ELSE Decimal(IF neg THEN 0 - mag ELSE mag, fracLen)

\* a value that `||` skips: 0, NaN, undefined
Falsy(v) == isNaN(v) \/ v = Zero

\* String.prototype.split('/')
RECURSIVE split(_)
split(s) ==
  IF \E k \in 1..Len(s) : CharAt(s, k) = "/"
  THEN LET k == CHOOSE j \in 1..Len(s) :
                  CharAt(s, j) = "/" /\ \A h \in 1..(j - 1) : CharAt(s, h) # "/"
       IN  <<SubSeq(s, 1, k - 1)>> \o split(SubSeq(s, k + 1, Len(s)))
  ELSE <<s>>

MONTHS == [JAN |-> 0, FEB |-> 1, MAR |-> 2, APR |-> 3, MAY |-> 4, JUN |-> 5,
           JUL |-> 6, AUG |-> 7, SEP |-> 8, OCT |-> 9, NOV |-> 10, DEC |-> 11]

IsLeap(y) == (y % 4 = 0 /\ y % 100 # 0) \/ y % 400 = 0

DaysInMonth(y, m) == IF m = 1 THEN (IF IsLeap(y) THEN 29 ELSE 28)
                     ELSE IF m \in {3, 5, 8, 10} THEN 30 ELSE 31

\* new Date(year, month, day): a day outside the month rolls over
RECURSIVE NewDate(_, _, _)
NewDate(y, m, d) ==
  IF d < 1 THEN (IF m = 0 THEN NewDate(y - 1, 11, d + 31)
                 ELSE NewDate(y, m - 1, d + DaysInMonth(y, m - 1)))
  ELSE IF d > DaysInMonth(y, m)
       THEN (IF m = 11 THEN NewDate(y + 1, 0, d - 31)
             ELSE NewDate(y, m + 1, d - DaysInMonth(y, m)))
       ELSE [year |-> y, month |-> m, day |-> d]

Null == [null |-> TRUE]

\* parseDate with the month table not consulted: every word counts as January
parseDate_anyMonth(day, month, year) ==
  NewDate(2000 + parseInt(year), 0, parseInt(day))

parseDate(day, month, year) ==
  LET key == toUpperCase(month)
      yearNum == parseInt(year)
      dayNum == parseInt(day)
  IN  IF key \notin DOMAIN MONTHS THEN Null
      ELSE IF parseIntIsNaN(year) THEN Null
      ELSE IF parseIntIsNaN(day) THEN Null
      ELSE NewDate(IF yearNum < 100 THEN yearNum + 2000 ELSE yearNum, MONTHS[key], dayNum)

(***************************************************************************)
(* The patterns of parseThinkorswimTrade.                                  *)
(***************************************************************************)
d == Set(Digit)
sp == Plus(Set(WhiteSpace))
sign == Opt(Set({"+", "-"}))
minus == Opt(Set({"-"}))
tilde == Opt(Set({"~"}))
BuyOrSell == Words(<<"BUY", "SELL">>)
CallOrPut == Words(<<"CALL", "PUT">>)

\* \d{1,2}\s+[A-Z]{3}\s+\d{2}
DateShape == Cat(<<Rep(d, 1, 2), sp, Rep(Set(Letter), 3, 3), sp, Rep(d, 2, 2)>>)

\* \(Weeklys?\)
WeeklyShape == Cat(<<Lit("(Weekly"), Opt(Lit("s")), Lit(")")>>)

\* /\b(BUY|SELL)\s+/i
buyOrSellPattern == RegExp(Cat(<<Wb, Cap(BuyOrSell), sp>>))

\* /^(BUY|SELL)\s+/i
actionPattern == RegExp(Cat(<<Bol, Cap(BuyOrSell), sp>>))

\* /(?:BUY|SELL)\s+([+-]?\d+)/i
qtyPattern == RegExp(Cat(<<BuyOrSell, sp, Cap(Cat(<<sign, Plus(d)>>))>>))

\* /(?:BUY|SELL)\s+[+-]?\d+\s+(-?\d{1,2}\/-?\d{1,2}(?:\/-?\d{1,2})*)\s+~?(?:CUSTOM|BACKRATIO|RATIO|BUTTERFLY|FLY)/i
ratioPattern ==
  RegExp(
    Cat(<<BuyOrSell, sp, sign, Plus(d), sp,
          Cap(Cat(<<minus, Rep(d, 1, 2), Lit("/"), minus, Rep(d, 1, 2),
                    Star(Cat(<<Lit("/"), minus, Rep(d, 1, 2)>>))>>)),
          sp, tilde, Words(<<"CUSTOM", "BACKRATIO", "RATIO", "BUTTERFLY", "FLY">>)>>))

\* /@(-?\d*\.?\d+)/
pricePattern == RegExp(Cat(<<Lit("@"), Cap(Cat(<<minus, Star(d), Opt(Lit(".")), Plus(d)>>))>>))

\* /\bGTC\b/i, /\bMKT\b/i, /\bSTP LMT\b/i, /\bSTP\b/i
gtcPattern == RegExp(Cat(<<Wb, Lit("GTC"), Wb>>))
mktPattern == RegExp(Cat(<<Wb, Lit("MKT"), Wb>>))
stpLmtPattern == RegExp(Cat(<<Wb, Lit("STP LMT"), Wb>>))
stpPattern == RegExp(Cat(<<Wb, Lit("STP"), Wb>>))

\* /\(Weeklys?\)/i
weeklyPattern == RegExp(WeeklyShape)

\* /\b(\d+)\/(\d+)\s+(?:\d{1,2}\s+[A-Z]{3}\s+\d{2})/i
futuresMultiplierPattern ==
  RegExp(
    Cat(<<Wb, Cap(Plus(d)), Lit("/"), Cap(Plus(d)), sp, DateShape>>))

\* /\b(\d+)\s+(?:\(Weeklys?\)\s+)?(?:\d{1,2}\s+[A-Z]{3}\s+\d{2})/i
equityMultiplierPattern ==
  RegExp(
    Cat(<<Wb, Cap(Plus(d)), sp, Opt(Cat(<<WeeklyShape, sp>>)), DateShape>>))

\* '(\\/[A-Z]+[A-Z0-9]*|[A-Z]{1,5})'
symbolRegex ==
  Cap(Alt(<<Cat(<<Lit("/"), Plus(Set(Letter)), Star(Set(Letter \cup Digit))>>),
            Rep(Set(Letter), 1, 5)>>))

symbolPatterns == <<
  \* ~?(?:CUSTOM|VERT|...|ROLL)\s+SYMBOL\s+\d+
  RegExp(Cat(<<tilde,
               Words(<<"CUSTOM", "VERT", "VERTICAL", "CALENDAR", "DIAGONAL", "BUTTERFLY", "FLY",
                       "CONDOR", "STRADDLE", "STRANGLE", "BACKRATIO", "RATIO", "ROLL">>),
               sp, symbolRegex, sp, Plus(d)>>)),
  \* [+-]?\d+\s+(?:\d+\/[\d/]+\s+)?~?(?:VERT(?:ICAL)?|...|RATIO)\s+(?:ROLL\s+)?SYMBOL\s+\d+
  RegExp(Cat(<<sign, Plus(d), sp,
               Opt(Cat(<<Plus(d), Lit("/"), Plus(Set(Digit \cup {"/"})), sp>>)),
               tilde,
               Alt(<<Cat(<<Lit("VERT"), Opt(Lit("ICAL"))>>), Lit("CALENDAR"), Lit("DIAGONAL"),
                     Lit("BUTTERFLY"), Lit("FLY"), Lit("CONDOR"), Lit("IC"), Lit("STRADDLE"),
                     Lit("STRANGLE"), Lit("BACKRATIO"), Lit("RATIO")>>),
               sp, Opt(Cat(<<Lit("ROLL"), sp>>)), symbolRegex, sp, Plus(d)>>)),
  \* ROLL\s+SYMBOL\s+\d+
  RegExp(Cat(<<Lit("ROLL"), sp, symbolRegex, sp, Plus(d)>>)),
  \* (?:BUY|SELL)\s+[+-]?\d+\s+SYMBOL\s+\d+
  RegExp(Cat(<<BuyOrSell, sp, sign, Plus(d), sp, symbolRegex, sp, Plus(d)>>)) >>

\* [+-]?\d+\s+(?:\d+\/[^\s]+\s+)?(?:CUSTOM\s+)?SYMBOL\s+\d+
fallbackPattern ==
  RegExp(
    Cat(<<sign, Plus(d), sp,
          Opt(Cat(<<Plus(d), Lit("/"), Plus(NotSet(WhiteSpace)), sp>>)),
          Opt(Cat(<<Lit("CUSTOM"), sp>>)), symbolRegex, sp, Plus(d)>>))

\* /(\d{1,2})\s+([A-Z]{3})\s+(\d{2})/gi
datePattern == RegExp(Cat(<<Cap(Rep(d, 1, 2)), sp, Cap(Rep(Set(Letter), 3, 3)), sp, Cap(Rep(d, 2, 2))>>))

\* /\d{2}(?:\s+\[(?:AM|PM)\])?\s+([\d.]+(?:\/[\d.]+)*)\s+(?:CALL|PUT)/i
strikesPattern ==
  RegExp(
    Cat(<<Rep(d, 2, 2),
          Opt(Cat(<<sp, Lit("["), Words(<<"AM", "PM">>), Lit("]")>>)),
          sp,
          Cap(Cat(<<Plus(Set(Digit \cup {"."})),
                    Star(Cat(<<Lit("/"), Plus(Set(Digit \cup {"."}))>>))>>)),
          sp, CallOrPut>>))

\* /((?:CALL|PUT)(?:\/(?:CALL|PUT))*)/i
optionTypesPattern == RegExp(Cap(Cat(<<CallOrPut, Star(Cat(<<Lit("/"), CallOrPut>>))>>)))

(***************************************************************************)
(* The steps of parseThinkorswimTrade as functions of the text.            *)
(***************************************************************************)
\* String.prototype.trim: the text from its first to its last character that
\* is no white space
\* a trim that leaves the string as it is
trim_keep(s) == s

trim(s) ==
  LET inked == {k \in 1..Len(s) : CharAt(s, k) \notin WhiteSpace}
  IN  IF inked = {} THEN ""
      ELSE SubSeq(s, CHOOSE k \in inked : \A j \in inked : k <= j,
                     CHOOSE k \in inked : \A j \in inked : k >= j)

\* the text before the action left in place
stripLeading_keep(raw) == raw

\* raw.substring(buyOrSellIndex) when buyOrSellIndex > 0
stripLeading(raw) ==
  LET buyOrSellIndex == Search(buyOrSellPattern, raw)
  IN  IF buyOrSellIndex > 0 THEN SubSeq(raw, buyOrSellIndex + 1, Len(raw)) ELSE raw

\* raw.replace(/\\([+-])/g, '$1'): a backslash before a sign goes
normalize(s) ==
  LET escapes(k) == CharAt(s, k) = "\\" /\ k < Len(s) /\ CharAt(s, k + 1) \in {"+", "-"}
      kept(k) == IF escapes(k) THEN "" ELSE CharAt(s, k)
  IN  Join(kept, 1, Len(s))

ratiosOf(text) ==
  LET ratioMatch == Exec(ratioPattern, text)
  IN  IF ratioMatch.found
      THEN LET parts == split(ratioMatch.group[1])
           IN  [k \in 1..Len(parts) |-> parseInt(parts[k])]
      ELSE Null

orderTypeOf(text) ==
  IF Test(mktPattern, text) THEN "MKT"
  ELSE IF Test(stpLmtPattern, text) THEN "STP LMT"
  ELSE IF Test(stpPattern, text) THEN "STP"
  ELSE "LMT"

\* the multiplier taken from any N/M pair, whatever follows it
multiplierOf_anyPair(text) ==
  LET pair == Exec(RegExp(Cat(<<Wb, Cap(Plus(d)), Lit("/"), Cap(Plus(d))>>)), text)
  IN  IF pair.found THEN parseInt(pair.group[2]) ELSE 100

multiplierOf(text) ==
  LET futuresMultiplierMatch == Exec(futuresMultiplierPattern, text)
      equityMultiplierMatch == Exec(equityMultiplierPattern, text)
  IN  IF futuresMultiplierMatch.found THEN parseInt(futuresMultiplierMatch.group[2])
      ELSE IF equityMultiplierMatch.found THEN parseInt(equityMultiplierMatch.group[1])
      ELSE 100

\* the first of the four patterns that matches gives the symbol
RECURSIVE firstSymbol(_, _)
firstSymbol(text, k) ==
  IF k > Len(symbolPatterns) THEN ""
  ELSE LET match == Exec(symbolPatterns[k], text)
       IN  IF match.found THEN toUpperCase(match.group[1]) ELSE firstSymbol(text, k + 1)

symbolOf(text) ==
  LET first == firstSymbol(text, 1)
      fallbackMatch == Exec(fallbackPattern, text)
  IN  IF first # "" THEN first
      ELSE IF fallbackMatch.found THEN toUpperCase(fallbackMatch.group[1])
      ELSE ""

\* the dates parseDate accepts, in the order the date pattern finds them
datesOf(text) ==
  LET found == ExecAll(datePattern, text)
      parsed == [k \in 1..Len(found) |->
                   parseDate(found[k].group[1], found[k].group[2], found[k].group[3])]
  IN  SelectSeq(parsed, LAMBDA parsedDate : parsedDate # Null)

strikesOf(text) ==
  LET strikesMatch == Exec(strikesPattern, text)
  IN  IF strikesMatch.found
      THEN LET parts == split(strikesMatch.group[1])
           IN  [k \in 1..Len(parts) |-> parseFloat(parts[k])]
      ELSE << >>

optionTypesOf(text) ==
  LET optionTypesMatch == Exec(optionTypesPattern, text)
  IN  IF optionTypesMatch.found THEN split(toUpperCase(optionTypesMatch.group[1]))
      ELSE << >>

\* the type taken from the leg count alone, the keywords not looked at
detectSpreadType_countOnly(text, legCount) ==
  IF legCount = 1 THEN "SINGLE"
  ELSE IF legCount = 2 THEN "VERTICAL"
  ELSE IF legCount = 4 THEN "IRON_CONDOR"
  ELSE "CUSTOM"

detectSpreadType(text, legCount) ==
  LET upperInput == toUpperCase(text)
  IN  IF includes(upperInput, "ROLL") THEN "ROLL"
      ELSE IF includes(upperInput, "CALENDAR") THEN "CALENDAR"
      ELSE IF includes(upperInput, "DIAGONAL") THEN "DIAGONAL"
      ELSE IF includes(upperInput, "VERT") THEN "VERTICAL"
      ELSE IF includes(upperInput, "BUTTERFLY") \/ includes(upperInput, "FLY") THEN "BUTTERFLY"
      ELSE IF includes(upperInput, "CONDOR") THEN "CONDOR"
      ELSE IF includes(upperInput, "IRON CONDOR") \/ includes(upperInput, "IC") THEN "IRON_CONDOR"
      ELSE IF includes(upperInput, "STRADDLE") THEN "STRADDLE"
      ELSE IF includes(upperInput, "STRANGLE") THEN "STRANGLE"
      ELSE IF includes(upperInput, "CUSTOM") THEN "CUSTOM"
      ELSE IF includes(upperInput, "BACKRATIO") THEN "BACKRATIO"
      ELSE IF includes(upperInput, "RATIO") THEN "RATIO"
      ELSE IF legCount = 1 THEN "SINGLE"
      ELSE IF legCount = 2 THEN "VERTICAL"
      ELSE IF legCount = 4 THEN "IRON_CONDOR"
      ELSE "CUSTOM"

Max(a, b) == IF a >= b THEN a ELSE b

\* Math.max(dates.length, strikes.length, optionTypes.length, ratios?.length || 1)
\* the leg count taken from the strikes alone
legCountOf_strikesOnly(ds, ks, ts, rs) == Max(Len(ks), 1)

legCountOf(ds, ks, ts, rs) ==
  Max(Max(Len(ds), Len(ks)),
      Max(Len(ts), IF rs # Null /\ Len(rs) # 0 THEN Len(rs) ELSE 1))

\* the ratios taken as unsigned whatever they hold
ratiosHaveExplicitSigns_never(rs) == FALSE

\* ratios?.some(r => r < 0) ?? false
ratiosHaveExplicitSigns(rs) == rs # Null /\ \E k \in 1..Len(rs) : rs[k] < 0

actionSign(act) == IF act = "BUY" THEN 1 ELSE 0 - 1

\* BACKRATIO with the first leg on the side of the others
backratioQty_sameSide(i, act, ratio) == ratio * actionSign(act)

\* BACKRATIO with unsigned ratios: -first, +the others, times the action's sign
backratioQty(i, act, ratio) == (IF i = 0 THEN 0 - ratio ELSE ratio) * actionSign(act)

\* BUTTERFLY with unsigned ratios: buy the wings, sell the body
butterflyRatioQty(i, act, ratio, rs) ==
  LET isWing == i = 0 \/ i = Len(rs) - 1
  IN  IF act = "BUY" THEN (IF isWing THEN ratio ELSE 0 - ratio)
      ELSE (IF isWing THEN 0 - ratio ELSE ratio)

\* CALENDAR with both legs on the side of the action
calendarQty_sameSide(i, act) == actionSign(act)

\* CALENDAR or DIAGONAL: the first leg follows the action, the second opposes it
calendarQty(i, act) ==
  IF act = "SELL" THEN (IF i = 0 THEN 0 - 1 ELSE 1)
  ELSE (IF i = 0 THEN 1 ELSE 0 - 1)

\* ROLL with the signs alternating
rollPattern_alternating(act) ==
  IF act = "SELL" THEN <<0 - 1, 1, 0 - 1, 1>> ELSE <<1, 0 - 1, 1, 0 - 1>>

rollPattern(act) == IF act = "SELL" THEN <<0 - 1, 1, 1, 0 - 1>> ELSE <<1, 0 - 1, 0 - 1, 1>>

\* ROLL: rollPattern[i % 4]
rollQty(i, act) == rollPattern(act)[(i % Len(rollPattern(act))) + 1]

\* BUTTERFLY of 3 legs: 1/2/1, wings with the action and body against it
butterflyQty(i, act) ==
  LET isWing == i = 0 \/ i = 2
  IN  IF act = "BUY" THEN (IF isWing THEN 1 ELSE 0 - 2)
      ELSE (IF isWing THEN 0 - 1 ELSE 2)

\* VERTICAL with both legs on the side of the action
verticalQty_sameSide(i, act) == actionSign(act)

\* VERTICAL of 2 legs: the first leg follows the action, the second opposes it
verticalQty(i, act) ==
  IF act = "BUY" THEN (IF i = 0 THEN 1 ELSE 0 - 1)
  ELSE (IF i = 0 THEN 0 - 1 ELSE 1)

\* the quantity of leg i (from 0) of one spread, before it is scaled
legQty(i, act, type, rs, count) ==
  IF rs # Null
  THEN LET ratio == rs[(i % Len(rs)) + 1]
       IN  IF ratiosHaveExplicitSigns(rs) THEN ratio * actionSign(act)
           ELSE IF type = "BACKRATIO" THEN backratioQty(i, act, ratio)
           ELSE IF type = "BUTTERFLY" THEN butterflyRatioQty(i, act, ratio, rs)
           ELSE ratio * actionSign(act)
  ELSE IF type = "CALENDAR" \/ type = "DIAGONAL" THEN calendarQty(i, act)
  ELSE IF type = "ROLL" THEN rollQty(i, act)
  ELSE IF type = "BUTTERFLY" /\ count = 3 THEN butterflyQty(i, act)
  ELSE IF type = "VERTICAL" /\ count = 2 THEN verticalQty(i, act)
  ELSE actionSign(act)

\* the quantity of a leg left as the spread gives it
quantityOf_unscaled(legQtyValue, total) == legQtyValue

\* quantity: legQty * totalQuantity
quantityOf(legQtyValue, total) == legQtyValue * total

\* new Date(): the clock as it reads now
Today(clock) == [clock |-> clock]

\* every leg expiring at the current date, the parsed dates not used
legExpiration_alwaysToday(i, ds, type, count, clock) == Today(clock)

\* every leg reading the dates in a cycle, a ROLL included
legExpiration_cyclicOnly(i, ds, type, count, clock) ==
  IF Len(ds) = 0 THEN Today(clock) ELSE ds[(i % Len(ds)) + 1]

legExpiration(i, ds, type, count, clock) ==
  IF Len(ds) = 0 THEN Today(clock)
  ELSE IF type = "ROLL" /\ Len(ds) = 2 /\ count = 4
       THEN (IF i < 2 THEN ds[1] ELSE ds[2])
  ELSE ds[(i % Len(ds)) + 1]

\* the tags of a calendar given whatever the action
legActionOf_anyAction(i, act, type) ==
  IF type = "ROLL" THEN (IF i < 2 THEN "OPEN" ELSE "CLOSE")
  ELSE IF type = "CALENDAR" \/ type = "DIAGONAL" THEN (IF i = 0 THEN "OPEN" ELSE "CLOSE")
  ELSE "undefined"

legActionOf(i, act, type) ==
  IF type = "ROLL" THEN (IF i < 2 THEN "OPEN" ELSE "CLOSE")
  ELSE IF (type = "CALENDAR" \/ type = "DIAGONAL") /\ act = "SELL"
       THEN (IF i = 0 THEN "OPEN" ELSE "CLOSE")
  ELSE "undefined"

\* strikes[i % strikes.length] || strikes[0] || 0
legStrike(i, ks) ==
  IF Len(ks) = 0 THEN Zero
  ELSE IF ~Falsy(ks[(i % Len(ks)) + 1]) THEN ks[(i % Len(ks)) + 1]
  ELSE IF ~Falsy(ks[1]) THEN ks[1]
  ELSE Zero

\* optionTypes[i % optionTypes.length] || optionTypes[0] || 'CALL'
legOptionType(i, ts) ==
  IF Len(ts) = 0 THEN "CALL" ELSE ts[(i % Len(ts)) + 1]

(***************************************************************************)
(* The inputs.                                                             *)
(***************************************************************************)
\* the inputs of the repository's own test cases
testCases == {
  "BUY +2 BE 100 15 JAN 27 50 CALL @52.60 LMT",
  "SELL -7 2/2/-1/-1 CUSTOM GOOGL 100 (Weeklys) 6 FEB 26/6 FEB 26/30 JAN 26/30 JAN 26 355/295/355/295 CALL/PUT/CALL/PUT @11.99 LMT GTC",
  "SELL -4 CALENDAR SHOP 100 (Weeklys) 13 FEB 26/16 JAN 26 160 PUT @6.75 LMT",
  "SELL -20 VERT ROLL RUT 100 (Weeklys) 20 FEB 26/30 JAN 26 2730/2740/2730/2740 CALL @.40 LMT",
  "SELL -4 CALENDAR SHOP 100 15 MAY 26/13 FEB 26 160 PUT @7.15 LMT",
  "SELL -2 CL 100 20 MAR 26 85 CALL @3.55 LMT",
  "BUY +10 HIMS 100 18 SEP 26 40 CALL @5.45 LMT",
  "SELL -2 1/3 BACKRATIO AMZN 100 16 JAN 26 247.5/260 CALL @-1.49 LMT" }

\* the scenarios of the specification that are not among the test cases
scenarios == {
  "hello world",
  "BUY +1 XYZ 100 5 XXX 26 50 CALL @1.00 LMT" }

\* inputs at the edges of the extraction steps
edgeCases == {
  "",
  "   ",
  "BUY",
  "BUY XYZ 100 15 JAN 27 50 CALL @1.00 LMT",
  "BUY +2 BE 100 15 JAN 27 50 CALL LMT",
  "BUY +2 @1.00",
  "BUY +2 TOOLONG 100 @1.00",
  "BUY +2 TOOLONG 100 15 JAN 27 50 CALL @1.00 LMT",
  "BUY CALL SELL -3 XYZ 100 15 JAN 27 50 CALL @1.00 LMT",
  "(Replacing #1005) SELL -4 CALENDAR SHOP 100 13 FEB 26/16 JAN 26 160 PUT @6.75 LMT",
  "  SELL \\-2 CL 100 20 MAR 26 85 CALL @\\-3.55 LMT  ",
  "buy +2 be 100 15 jan 27 50 call @52.60 lmt",
  "BUY +1 TICK 100 15 JAN 27 50 CALL @1.00 LMT",
  "BUY +2 /ESZ25 1/50 19 DEC 25 6000 CALL @52.60 MKT",
  "BUY +2 BE 100 15 JAN 27 50 @52.60 STP LMT",
  "BUY +2 BE 100 15 JAN 27 @52.60 STP GTC",
  "BUY +1 VERT XYZ 100 15 JAN 27 50/0 CALL @1.00 LMT",
  "BUY +1 VERT XYZ 100 15 JAN 27 0/50 CALL @1.00 LMT",
  "BUY +1 SPX 100 18 JUN 26 [AM] 5000 CALL @1.00 LMT",
  "BUY +0 BE 100 15 JAN 27 50 CALL @52.60 LMT",
  "BUY +1 0/1 CUSTOM XYZ 100 15 JAN 27 50/55 CALL @1.00 LMT",
  "BUY +1 1/2 RATIO VERTX 100 15 JAN 27 50/55 CALL @1.00 LMT",
  "SELL -1 XYZ 100 31 FEB 26 50 PUT @1.00 LMT",
  "BUY +1 STRANGLE XYZ 100 15 JAN 27 50/55 PUT/CALL @1.00 LMT",
  "SELL -1 IC XYZ 100 15 JAN 27 40/45/60/65 PUT/PUT/CALL/CALL @1.00 LMT",
  "SELL -1 XYZ 100 15 JAN 27 40/45/60/65 PUT/PUT/CALL/CALL @1.00 LMT",
  "SELL -1 XYZ 100 15 JAN 27 40/45/60 PUT/PUT/CALL @1.00 LMT",
  "SELL -2 ICE 100 20 MAR 26 85 CALL @3.55 LMT",
  "SELL -3 ROLL XYZ 100 20 DEC 26 50/55/60/65/70 CALL @1.00 LMT",
  "SELL -2 CALENDAR XYZ 100 20 DEC 26/5 XXX 26 50 CALL @1.00 LMT",
  "SELL -2 XYZ 5 XXX 26 50 CALL @1.00 LMT",
  "5 XXX 26 50 CALL @1.00 LMT",
  "BUY +1 PUTT 100 15 JAN 27 50 @1.00 LMT",
  "SELL -4 CALENDAR SHOP 13 FEB 26/16 JAN 26 160 PUT @6.75 LMT" }

\* the number n >= 0 written in decimal
RECURSIVE IntToString(_)
IntToString(n) == IF n < 10 THEN CharAt(DigitChars, n + 1)
                  ELSE IntToString(n \div 10) \o CharAt(DigitChars, (n % 10) + 1)

\* the texts f(1), ..., f(n) joined by "/"
RECURSIVE Slashed(_, _)
Slashed(f(_), n) == IF n = 0 THEN ""
                    ELSE IF n = 1 THEN f(1)
                    ELSE Slashed(f, n - 1) \o "/" \o f(n)

MaxQty == 2
MaxStrikes == 4
MaxDates == 2

MonthNames == <<"DEC", "NOV", "OCT", "SEP", "AUG", "JUL", "JUN", "MAY", "APR", "MAR", "FEB", "JAN">>

\* the far date first, as the platform lists them
DateText(k) == IntToString(21 - k) \o " " \o MonthNames[k] \o " 26"

StrikeText(k) == IntToString(45 + 5 * k)

\* what stands between the quantity and the symbol: a ratio, a spread keyword
Heads == {"", "VERT ", "VERT ROLL ", "ROLL ", "CALENDAR ", "DIAGONAL ", "BUTTERFLY ",
          "CONDOR ", "IRON CONDOR ", "STRADDLE ", "BACKRATIO ",
          "1/3 BACKRATIO ", "1/-3 BACKRATIO ", "1/2 RATIO ", "1/2 CUSTOM ",
          "2/2/-1/-1 CUSTOM ", "1/3/2 BUTTERFLY ", "1/2 FLY ", "1/-2/1 ~BUTTERFLY "}

\* an order as the platform writes it
Order(act, qty, head, nDates, nStrikes) ==
  act \o " " \o (IF act = "BUY" THEN "+" ELSE "-") \o IntToString(qty) \o " " \o head
      \o "XYZ 100 " \o Slashed(DateText, nDates)
      \o (IF nStrikes = 0 THEN "" ELSE " " \o Slashed(StrikeText, nStrikes))
      \o " CALL @1.50 LMT"

Orders == {Order(act, qty, head, nDates, nStrikes) :
             act \in {"BUY", "SELL"}, qty \in {1, MaxQty}, head \in Heads,
             nDates \in 1..MaxDates, nStrikes \in 1..MaxStrikes}

Inputs == testCases \cup scenarios \cup edgeCases \cup Orders

StringInput(s) == [type |-> "string", value |-> s]

\* a value that is no string: calling trim on it throws a TypeError
NonStrings == {[type |-> kind, value |-> ""] : kind \in {"undefined", "null", "number"}}

(***************************************************************************)
(* One call of parseThinkorswimTrade(input), a step at a time.             *)
(***************************************************************************)
VARIABLES input, now, pc, raw, normalized, action, totalQuantity, ratios, price,
          isGTC, orderType, isWeekly, multiplier, symbol, dates, strikes,
          optionTypes, spreadType, legs, result, previous, prefix,
          pendingData, debounceTimer, isSyncing, retryCount, status, syncPc,
          localData, remote, timeouts, awaiting, resolved, latest, calls, failures,
          sinceCall, fired, events, appData, call, ops

locals == <<raw, normalized, action, totalQuantity, ratios, price, isGTC, orderType,
            isWeekly, multiplier, symbol, dates, strikes, optionTypes, spreadType, legs>>

\* the state of the sync manager
sync == <<pendingData, debounceTimer, isSyncing, retryCount, status, syncPc,
          localData, remote, timeouts, awaiting, resolved, latest, calls, failures,
          sinceCall, fired, events>>

\* the state that one call of the parser leaves alone
outside == <<previous, prefix, sync, appData, call, ops>>

vars == <<input, now, pc, locals, result, outside>>

MaxClock == 1
MaxRandom == 1

\* no earlier call
NoCall == [kind |-> "none"]
Pending == [kind |-> "pending"]
ReturnNull == [kind |-> "null"]
Throws(error) == [kind |-> "throws", error |-> error]
ReturnTrade(trade) == [kind |-> "trade", trade |-> trade]

\* a catch clause that throws the error on
catch_rethrow(error) == Throws(error)

\* catch (error) { console.error(...); return null; }
catch(error) == ReturnNull

legCount == legCountOf(dates, strikes, optionTypes, ratios)

Init ==
  /\ input \in {StringInput(s) : s \in Inputs} \cup NonStrings
  /\ now = 0
  /\ pc = "trim"
  /\ raw = ""
  /\ normalized = ""
  /\ action = ""
  /\ totalQuantity = 0
  /\ ratios = Null
  /\ price = Zero
  /\ isGTC = FALSE
  /\ orderType = "LMT"
  /\ isWeekly = FALSE
  /\ multiplier = 100
  /\ symbol = ""
  /\ dates = << >>
  /\ strikes = << >>
  /\ optionTypes = << >>
  /\ spreadType = ""
  /\ legs = << >>
  /\ result = Pending
  /\ previous = NoCall
  /\ prefix = ""
  /\ pendingData = Null
  /\ debounceTimer = Null
  /\ isSyncing = FALSE
  /\ retryCount = 0
  /\ status = "idle"
  /\ syncPc = "none"
  /\ localData = Null
  /\ remote = << >>
  /\ timeouts = [debounce |-> {}, retry |-> 0]
  /\ awaiting = Null
  /\ resolved = {}
  /\ latest = Null
  /\ calls = 0
  /\ failures = 0
  /\ sinceCall = 0
  /\ fired = << >>
  /\ events = << >>
  /\ appData = [services |-> << >>]
  /\ call = Null
  /\ ops = 0

Return(value) == /\ result' = value
                 /\ pc' = "done"
                 /\ UNCHANGED outside

Goto(label) == /\ pc' = label
               /\ result' = result
               /\ UNCHANGED outside

\* let raw = input.trim(); if (!raw) return null;
Trim ==
  /\ pc = "trim"
  /\ IF input.type # "string"
     THEN /\ Goto("catch")
          /\ UNCHANGED locals
     ELSE /\ raw' = trim(input.value)
          /\ IF raw' = "" THEN Return(ReturnNull) ELSE Goto("strip")
          /\ UNCHANGED <<normalized, action, totalQuantity, ratios, price, isGTC, orderType,
                         isWeekly, multiplier, symbol, dates, strikes, optionTypes,
                         spreadType, legs>>
  /\ UNCHANGED <<input, now>>

\* the text before BUY or SELL goes, the backslash escapes go
StripNoise ==
  /\ pc = "strip"
  /\ raw' = stripLeading(raw)
  /\ normalized' = normalize(raw')
  /\ Goto("action")
  /\ UNCHANGED <<input, now, action, totalQuantity, ratios, price, isGTC, orderType,
                 isWeekly, multiplier, symbol, dates, strikes, optionTypes, spreadType, legs>>

ExtractAction ==
  /\ pc = "action"
  /\ LET actionMatch == Exec(actionPattern, normalized)
     IN  IF ~actionMatch.found
         THEN /\ Return(ReturnNull)
              /\ UNCHANGED action
         ELSE /\ action' = toUpperCase(actionMatch.group[1])
              /\ Goto("quantity")
  /\ UNCHANGED <<input, now, raw, normalized, totalQuantity, ratios, price, isGTC, orderType,
                 isWeekly, multiplier, symbol, dates, strikes, optionTypes, spreadType, legs>>

ExtractQuantity ==
  /\ pc = "quantity"
  /\ LET qtyMatch == Exec(qtyPattern, normalized)
     IN  IF ~qtyMatch.found
         THEN /\ Return(ReturnNull)
              /\ UNCHANGED <<totalQuantity, ratios>>
         ELSE /\ totalQuantity' = Abs(parseInt(qtyMatch.group[1]))
              /\ ratios' = ratiosOf(normalized)
              /\ Goto("price")
  /\ UNCHANGED <<input, now, raw, normalized, action, price, isGTC, orderType,
                 isWeekly, multiplier, symbol, dates, strikes, optionTypes, spreadType, legs>>

\* the price step without its early return: no price reads as 0
ExtractPrice_optional ==
  /\ pc = "price"
  /\ LET priceMatch == Exec(pricePattern, normalized)
     IN  price' = IF priceMatch.found THEN parseFloat(priceMatch.group[1]) ELSE Zero
  /\ Goto("flags")
  /\ UNCHANGED <<input, now, raw, normalized, action, totalQuantity, ratios, isGTC, orderType,
                 isWeekly, multiplier, symbol, dates, strikes, optionTypes, spreadType, legs>>

ExtractPrice ==
  /\ pc = "price"
  /\ LET priceMatch == Exec(pricePattern, normalized)
     IN  IF ~priceMatch.found
         THEN /\ Return(ReturnNull)
              /\ UNCHANGED price
         ELSE /\ price' = parseFloat(priceMatch.group[1])
              /\ Goto("flags")
  /\ UNCHANGED <<input, now, raw, normalized, action, totalQuantity, ratios, isGTC, orderType,
                 isWeekly, multiplier, symbol, dates, strikes, optionTypes, spreadType, legs>>

ExtractFlags ==
  /\ pc = "flags"
  /\ isGTC' = Test(gtcPattern, normalized)
  /\ orderType' = orderTypeOf(normalized)
  /\ isWeekly' = Test(weeklyPattern, normalized)
  /\ multiplier' = multiplierOf(normalized)
  /\ Goto("symbol")
  /\ UNCHANGED <<input, now, raw, normalized, action, totalQuantity, ratios, price,
                 symbol, dates, strikes, optionTypes, spreadType, legs>>

ExtractSymbol ==
  /\ pc = "symbol"
  /\ symbol' = symbolOf(normalized)
  /\ IF symbol' = "" THEN Return(ReturnNull) ELSE Goto("arrays")
  /\ UNCHANGED <<input, now, raw, normalized, action, totalQuantity, ratios, price, isGTC,
                 orderType, isWeekly, multiplier, dates, strikes, optionTypes, spreadType, legs>>

ExtractLegArrays ==
  /\ pc = "arrays"
  /\ dates' = datesOf(normalized)
  /\ strikes' = strikesOf(normalized)
  /\ optionTypes' = optionTypesOf(normalized)
  /\ spreadType' = detectSpreadType(normalized,
                                    legCountOf(dates', strikes', optionTypes', ratios))
  /\ Goto("legs")
  /\ UNCHANGED <<input, now, raw, normalized, action, totalQuantity, ratios, price, isGTC,
                 orderType, isWeekly, multiplier, symbol, legs>>

\* one turn of `for (let i = 0; i < legCount; i++)`, with i = legs.length
BuildLeg ==
  /\ pc = "legs"
  /\ Len(legs) < legCount
  /\ LET i == Len(legs)
     IN  legs' = Append(legs,
                   [quantity |-> quantityOf(legQty(i, action, spreadType, ratios, legCount),
                                            totalQuantity),
                    expiration |-> legExpiration(i, dates, spreadType, legCount, now),
                    strike |-> legStrike(i, strikes),
                    optionType |-> legOptionType(i, optionTypes),
                    legAction |-> legActionOf(i, action, spreadType)])
  /\ Goto("legs")
  /\ UNCHANGED <<input, now, raw, normalized, action, totalQuantity, ratios, price, isGTC,
                 orderType, isWeekly, multiplier, symbol, dates, strikes, optionTypes,
                 spreadType>>

\* generateId(): the clock and a random suffix
generateId(clock, random) == <<clock, random>>

ReturnResult ==
  /\ pc = "legs"
  /\ Len(legs) >= legCount
  /\ \E random \in 0..MaxRandom :
       Return(ReturnTrade([id |-> generateId(now, random),
                           rawInput |-> raw,
                           action |-> action,
                           totalQuantity |-> totalQuantity,
                           symbol |-> symbol,
                           multiplier |-> multiplier,
                           isWeekly |-> isWeekly,
                           spreadType |-> spreadType,
                           legs |-> legs,
                           price |-> price,
                           orderType |-> orderType,
                           isGTC |-> isGTC,
                           tradeDate |-> Today(now)]))
  /\ UNCHANGED <<input, now, locals>>

\* the catch clause of the try block around the whole body
Catch ==
  /\ pc = "catch"
  /\ Return(catch("TypeError"))
  /\ UNCHANGED <<input, now, locals>>

\* time passes while the legs are built (the clock is read only there and at
\* the return)
Tick ==
  /\ pc = "legs"
  /\ now < MaxClock
  /\ now' = now + 1
  /\ UNCHANGED <<input, pc, locals, result, outside>>

Next == \/ Trim \/ StripNoise \/ ExtractAction \/ ExtractQuantity \/ ExtractPrice
        \/ ExtractFlags \/ ExtractSymbol \/ ExtractLegArrays \/ BuildLeg
        \/ ReturnResult \/ Catch \/ Tick

Spec == Init /\ [][Next]_vars

\* the strings parsed twice: the fixtures, the scenarios and the edge cases
RepeatedInputs == testCases \cup scenarios \cup edgeCases

\* the caller parses the same string once more, at the same or a later time
Again ==
  /\ pc = "done"
  /\ previous = NoCall
  /\ previous' = result
  /\ \E clock \in now..MaxClock : now' = clock
  /\ pc' = "trim"
  /\ raw' = ""
  /\ normalized' = ""
  /\ action' = ""
  /\ totalQuantity' = 0
  /\ ratios' = Null
  /\ price' = Zero
  /\ isGTC' = FALSE
  /\ orderType' = "LMT"
  /\ isWeekly' = FALSE
  /\ multiplier' = 100
  /\ symbol' = ""
  /\ dates' = << >>
  /\ strikes' = << >>
  /\ optionTypes' = << >>
  /\ spreadType' = ""
  /\ legs' = << >>
  /\ result' = Pending
  /\ UNCHANGED <<input, prefix, sync, appData, call, ops>>

InitTwice == Init /\ (input.type = "string" => input.value \in RepeatedInputs)

NextTwice == Next \/ Again

SpecTwice == InitTwice /\ [][NextTwice]_vars

\* the text put before an order: the annotation of the platform, a note, or
\* white space; none holds a BUY or SELL token and each ends in white space
\* or punctuation
Prefixes == {"(Replacing #1005) ", "  ", "note: ", "#7-", "SELLER: ", "tag_"}

\* the orders entered with and without a text before them: the fixtures,
\* scenarios and edge cases that start with an action token
PrefixedInputs == {s \in RepeatedInputs : Test(RegExp(Cat(<<Bol, BuyOrSell, Wb>>)), s)}

\* the caller parses the same string once more with a text before it, at the
\* same or a later time
AgainWithPrefix ==
  /\ pc = "done"
  /\ input.type = "string"
  /\ previous = NoCall
  /\ previous' = result
  /\ \E noise \in Prefixes :
       /\ prefix' = noise
       /\ input' = StringInput(noise \o input.value)
  /\ \E clock \in now..MaxClock : now' = clock
  /\ pc' = "trim"
  /\ raw' = ""
  /\ normalized' = ""
  /\ action' = ""
  /\ totalQuantity' = 0
  /\ ratios' = Null
  /\ price' = Zero
  /\ isGTC' = FALSE
  /\ orderType' = "LMT"
  /\ isWeekly' = FALSE
  /\ multiplier' = 100
  /\ symbol' = ""
  /\ dates' = << >>
  /\ strikes' = << >>
  /\ optionTypes' = << >>
  /\ spreadType' = ""
  /\ legs' = << >>
  /\ result' = Pending
  /\ UNCHANGED <<sync, appData, call, ops>>

InitPrefixed == Init /\ (input.type = "string" => input.value \in PrefixedInputs)

NextPrefixed == Next \/ AgainWithPrefix

SpecPrefixed == InitPrefixed /\ [][NextPrefixed]_vars

(***************************************************************************)
(* The sync manager (class SyncManager), in a browser that stays online    *)
(* and has a spreadsheet id stored.  Every handler runs to its next await; *)
(* the timers that are set and the remote calls that are in flight         *)
(* complete in any order.  Fewer than maxRequestsPerMinute requests are    *)
(* made, so checkRateLimit never waits.                                    *)
(***************************************************************************)
MaxData == 3
MaxCalls == 3
MaxFailures == 2

\* the application data handed to the sync manager, told apart by a version
AppData == {[version |-> v] : v \in 1..MaxData}

SYNC_CONFIG == [debounceMs |-> 500, maxRequestsPerMinute |-> 50, maxRetries |-> 3,
                retryDelayMs |-> 1000, maxQueueSize |-> 100]

\* the clock of the browser advances in steps of TickMs milliseconds
TickMs == 50

\* the debounce delay in steps of the clock
DebounceTicks == SYNC_CONFIG.debounceMs \div TickMs

Min(a, b) == IF a <= b THEN a ELSE b

\* the parser is at rest while the sync manager runs
parser == <<input, now, pc, locals, result, previous, prefix>>

\* what setTimeout returns for the n-th timer
TimerId(n) == [timeout |-> n]

\* the debounce timer left running
clearDebounce_not(pending) == pending

\* clearTimeout(this.debounceTimer), guarded by if (this.debounceTimer): the
\* timer of that id, if it is still set, is set no more
clearDebounce(pending) ==
  IF debounceTimer # Null
    THEN [pending EXCEPT !.debounce = {t \in @ : t.id # debounceTimer.timeout}]
    ELSE pending

\* whether executeSync() called now, with this.pendingData = pending, returns
\* at once: if (this.isSyncing) return; if (!this.pendingData) return;
Skips(pending) == isSyncing \/ pending = Null

\* executeSync() up to its first remote call, with this.pendingData = pending:
\* the early returns, then isSyncing = true and status 'syncing'
executeSync(pending) ==
  IF Skips(pending)
    THEN UNCHANGED <<isSyncing, status, syncPc>>
    ELSE /\ isSyncing' = TRUE
         /\ status' = "syncing"
         /\ syncPc' = "getLastModified"

\* scheduleSync(data), online: the timer set before is cleared and a new one
\* is set
scheduleSync(data) ==
  /\ calls < MaxCalls
  /\ calls' = calls + 1
  /\ pendingData' = data
  /\ status' = "pending"
  /\ debounceTimer' = TimerId(calls + 1)
  /\ timeouts' = [clearDebounce(timeouts) EXCEPT
                    !.debounce = @ \cup {[id |-> calls + 1, elapsed |-> 0]}]
  /\ latest' = data
  /\ sinceCall' = 0
  /\ UNCHANGED <<isSyncing, retryCount, syncPc, localData, remote, awaiting, resolved,
                 failures, fired, events>>
  /\ UNCHANGED <<parser, appData, call, ops>>

\* the callback of debounce timer t runs: () => { this.executeSync(); }
Fire(t) ==
  /\ timeouts' = [timeouts EXCEPT !.debounce = @ \ {t}]
  /\ executeSync(pendingData)
  /\ fired' = Append(fired, [data |-> pendingData, since |-> sinceCall,
                             skipped |-> Skips(pendingData)])
  /\ UNCHANGED <<pendingData, debounceTimer, retryCount, localData, remote, awaiting,
                 resolved, latest, calls, failures, sinceCall, events>>
  /\ UNCHANGED <<parser, appData, call, ops>>

\* a debounce timer fires, at some time
DebounceFires == \E t \in timeouts.debounce : Fire(t)

\* a debounce timer fires, debounceMs or more after it was set
DebounceDue == \E t \in timeouts.debounce : t.elapsed >= DebounceTicks /\ Fire(t)

\* the clock advances by one step (counted up to the debounce delay)
Elapse ==
  /\ sinceCall < DebounceTicks \/ \E t \in timeouts.debounce : t.elapsed < DebounceTicks
  /\ sinceCall' = Min(sinceCall + 1, DebounceTicks)
  /\ timeouts' = [timeouts EXCEPT
                    !.debounce = {[id |-> t.id, elapsed |-> Min(t.elapsed + 1, DebounceTicks)] :
                                    t \in @}]
  /\ UNCHANGED <<pendingData, debounceTimer, isSyncing, retryCount, status, syncPc,
                 localData, remote, awaiting, resolved, latest, calls, failures, fired,
                 events>>
  /\ UNCHANGED <<parser, appData, call, ops>>

\* getLastModified resolves; the sheet was or was not modified after the last
\* sync.  Either way this.pendingData is read now, as the argument of
\* handleConflict (which awaits readAppData first) or of writeAppData.
GetLastModifiedResolves ==
  /\ syncPc = "getLastModified"
  /\ localData' = pendingData
  /\ \E conflict \in BOOLEAN :
       syncPc' = IF conflict THEN "readAppData" ELSE "writeAppData"
  /\ UNCHANGED <<pendingData, debounceTimer, isSyncing, retryCount, status, remote,
                 timeouts, awaiting, resolved, latest, calls, failures, sinceCall, fired,
                 events>>
  /\ UNCHANGED <<parser, appData, call, ops>>

\* handleConflict after readAppData resolves: status 'conflict', and the
\* handler that StorageContext installs answers 'local', so that localData
\* is written
ReadAppDataResolves ==
  /\ syncPc = "readAppData"
  /\ status' = "conflict"
  /\ syncPc' = "writeAppData"
  /\ UNCHANGED <<pendingData, debounceTimer, isSyncing, retryCount, localData, remote,
                 timeouts, awaiting, resolved, latest, calls, failures, sinceCall, fired,
                 events>>
  /\ UNCHANGED <<parser, appData, call, ops>>

\* finally { this.isSyncing = false; } and the promise of executeSync()
\* resolves: a forceSync that awaits it resolves with it
Finally ==
  /\ isSyncing' = FALSE
  /\ syncPc' = "none"
  /\ localData' = Null
  /\ awaiting' = Null
  /\ resolved' = IF awaiting = Null THEN resolved ELSE resolved \cup {awaiting}

\* writeAppData resolves: the sheet holds localData; status 'idle' and
\* this.pendingData = null
WriteAppDataResolves ==
  /\ syncPc = "writeAppData"
  /\ remote' = Append(remote, localData)
  /\ status' = "idle"
  /\ pendingData' = Null
  /\ events' = Append(events, [event |-> "success"])
  /\ Finally
  /\ UNCHANGED <<debounceTimer, retryCount, timeouts, latest, calls, failures, sinceCall,
                 fired>>
  /\ UNCHANGED <<parser, appData, call, ops>>

\* forceSync(data): the timer is cleared, this.pendingData = data, and the
\* call resolves when its executeSync() does
forceSync(data) ==
  /\ calls < MaxCalls
  /\ calls' = calls + 1
  /\ timeouts' = clearDebounce(timeouts)
  /\ debounceTimer' = Null
  /\ pendingData' = data
  /\ executeSync(data)
  /\ IF Skips(data)
       THEN resolved' = resolved \cup {data} /\ awaiting' = awaiting
       ELSE resolved' = resolved /\ awaiting' = data
  /\ UNCHANGED <<retryCount, localData, remote, latest, failures, sinceCall, fired, events>>
  /\ UNCHANGED <<parser, appData, call, ops>>

\* Math.pow(2, n)
RECURSIVE pow2(_)
pow2(n) == IF n = 0 THEN 1 ELSE 2 * pow2(n - 1)

\* scheduleRetry(): past maxRetries the count starts again and nothing is
\* set; otherwise a timer is set with a delay that doubles with the count
scheduleRetry ==
  IF retryCount >= SYNC_CONFIG.maxRetries
    THEN /\ retryCount' = 0
         /\ timeouts' = timeouts
         /\ events' = Append(events, [event |-> "failure", retry |-> FALSE, delay |-> 0])
    ELSE /\ retryCount' = retryCount + 1
         /\ timeouts' = [timeouts EXCEPT !.retry = @ + 1]
         /\ events' = Append(events, [event |-> "failure", retry |-> TRUE,
                                      delay |-> SYNC_CONFIG.retryDelayMs * pow2(retryCount)])

\* a remote call rejects (catch): an authentication error drops the pending
\* data, any other error sets status 'error' and schedules a retry
RemoteCallFails ==
  /\ syncPc \in {"getLastModified", "readAppData", "writeAppData"}
  /\ failures < MaxFailures
  /\ failures' = failures + 1
  /\ \E isAuthError \in BOOLEAN :
       IF isAuthError
         THEN /\ status' = "idle"
              /\ pendingData' = Null
              /\ events' = Append(events, [event |-> "expired"])
              /\ UNCHANGED <<retryCount, timeouts>>
         ELSE /\ status' = "error"
              /\ pendingData' = pendingData
              /\ scheduleRetry
  /\ Finally
  /\ UNCHANGED <<debounceTimer, remote, latest, calls, sinceCall, fired>>
  /\ UNCHANGED <<parser, appData, call, ops>>

\* a retry timer fires: () => { if (this.pendingData) this.executeSync(); }
RetryFires ==
  /\ timeouts.retry > 0
  /\ timeouts' = [timeouts EXCEPT !.retry = @ - 1]
  /\ executeSync(pendingData)
  /\ UNCHANGED <<pendingData, debounceTimer, retryCount, localData, remote, awaiting,
                 resolved, latest, calls, failures, sinceCall, fired, events>>
  /\ UNCHANGED <<parser, appData, call, ops>>

\* the application, loaded, before any change to its data
InitSync == Init /\ input = StringInput("")

\* debounced syncs only, every remote call succeeding
NextDebounced == \/ \E data \in AppData : scheduleSync(data)
                 \/ DebounceFires
                 \/ GetLastModifiedResolves
                 \/ ReadAppDataResolves
                 \/ WriteAppDataResolves

\* what the browser and the network are bound to do: a timer that is set
\* fires, a remote call that is in flight completes
Fairness == /\ WF_vars(DebounceFires)
            /\ WF_vars(GetLastModifiedResolves)
            /\ WF_vars(ReadAppDataResolves)
            /\ WF_vars(WriteAppDataResolves)

SpecDebounced == InitSync /\ [][NextDebounced]_vars /\ Fairness

\* debounced and forced syncs, every remote call succeeding
NextSync == NextDebounced \/ \E data \in AppData : forceSync(data)

SpecSync == InitSync /\ [][NextSync]_vars

\* remote calls may fail
NextUnreliable == NextSync \/ RemoteCallFails \/ RetryFires

SpecUnreliable == InitSync /\ [][NextUnreliable]_vars

\* a burst of scheduleSync calls, each less than debounceMs after the one
\* before, while the clock runs: a timer fires when its delay has elapsed
Burst == \E data \in AppData :
           /\ calls > 0 => sinceCall < DebounceTicks
           /\ scheduleSync(data)

NextBurst == \/ Burst
             \/ Elapse
             \/ DebounceDue
             \/ GetLastModifiedResolves
             \/ ReadAppDataResolves
             \/ WriteAppDataResolves

SpecBurst == InitSync /\ [][NextBurst]_vars

(***************************************************************************)
(* The stored application data (utils/storage.ts): services, each with a   *)
(* portfolio of positions, changed by the handlers of the service page.    *)
(***************************************************************************)
MaxOps == 6
MaxServices == 2
MaxPositionId == 2

\* the symbols of the trades that are entered
Symbols == {"XYZ", "SHOP"}

\* A JavaScript number that is a whole number: n when at = 0 and 2^53 + n
\* when at = 1.  Below 2^53 every whole number is a double; from 2^53 to
\* 2^54 only the even ones are.
Small(n) == [at |-> 0, n |-> n]
Big(n) == [at |-> 1, n |-> n]

\* a < b
LessThan(a, b) == a.at < b.at \/ (a.at = b.at /\ a.n < b.n)

\* a + 1 in double arithmetic: exact below 2^53; from 2^53 on the sum lies
\* half way between two doubles and is rounded to the one whose mantissa is
\* even
PlusOne(a) ==
  IF a.at = 0 THEN Small(a.n + 1)
  ELSE IF (a.n \div 2) % 2 = 0 THEN a
  ELSE Big(a.n + 2)

\* Math.max(a, b)
MathMax(a, b) == IF LessThan(a, b) THEN b ELSE a

\* the position numbers that are entered: parseInt(positionIdInput, 10),
\* neither NaN nor below 1
PositionIds == {Small(n) : n \in 1..MaxPositionId} \cup {Big(0)}

\* array.find(p => p.id === id), as the index of the element found, or 0
Find(array, id) ==
  IF \E i \in DOMAIN array : array[i].id = id
    THEN CHOOSE i \in DOMAIN array :
           array[i].id = id /\ \A j \in 1..(i - 1) : array[j].id # id
    ELSE 0

\* array.map(f)
Map(array, f(_)) == [i \in DOMAIN array |-> f(array[i])]

\* createService(appData, name), with the id that generateId() gives
createService(data, id) ==
  [data EXCEPT !.services =
     Append(@, [id |-> id, portfolio |-> [positions |-> << >>, nextPositionId |-> Small(1)]])]

\* updateService(appData, serviceId, portfolio)
updateService(data, serviceId, portfolio) ==
  [data EXCEPT !.services =
     Map(@, LAMBDA s : IF s.id = serviceId THEN [s EXCEPT !.portfolio = portfolio] ELSE s)]

\* what addTradeToPosition gives when it throws
Thrown(message) == [error |-> message]

\* the two checks of addTradeToPosition on the position found: the message
\* of the error thrown, or "" when none is
Rejects(existingPosition, trade) ==
  IF existingPosition.symbol # trade.symbol THEN "Symbol mismatch"
  ELSE IF ~existingPosition.isOpen THEN "Cannot add trade to a closed position"
  ELSE ""

\* addTradeToPosition(portfolio, trade, positionId): the new portfolio, or
\* the error thrown
addTradeToPosition(portfolio, trade, positionId) ==
  LET found == Find(portfolio.positions, positionId)
      added == [trade EXCEPT !.positionId = positionId]
  IN IF found # 0
       THEN IF Rejects(portfolio.positions[found], trade) # ""
              THEN Thrown(Rejects(portfolio.positions[found], trade))
              ELSE [portfolio EXCEPT !.positions =
                      Map(@, LAMBDA pos : IF pos.id = positionId
                                            THEN [pos EXCEPT !.trades = Append(@, added)]
                                            ELSE pos)]
       ELSE [positions |-> Append(portfolio.positions,
                                  [id |-> positionId, symbol |-> trade.symbol,
                                   trades |-> <<added>>, isOpen |-> TRUE]),
             nextPositionId |-> MathMax(portfolio.nextPositionId, PlusOne(positionId))]

\* closePosition(portfolio, positionId)
closePosition(portfolio, positionId) ==
  [portfolio EXCEPT !.positions =
     Map(@, LAMBDA pos : IF pos.id # positionId THEN pos ELSE [pos EXCEPT !.isOpen = FALSE])]

\* reopenPosition(portfolio, positionId)
reopenPosition(portfolio, positionId) ==
  [portfolio EXCEPT !.positions =
     Map(@, LAMBDA pos : IF pos.id = positionId THEN [pos EXCEPT !.isOpen = TRUE] ELSE pos)]

\* deletePosition(portfolio, positionId)
deletePosition(portfolio, positionId) ==
  [portfolio EXCEPT !.positions = SelectSeq(@, LAMBDA p : p.id # positionId)]

\* deleteTrade(portfolio, positionId, tradeId): a position left with no
\* trade is removed
deleteTrade(portfolio, positionId, tradeId) ==
  LET without(pos) == IF pos.id # positionId THEN pos
                      ELSE [pos EXCEPT !.trades = SelectSeq(@, LAMBDA t : t.id # tradeId)]
  IN [portfolio EXCEPT !.positions =
        SelectSeq(Map(@, without), LAMBDA pos : pos.trades # << >>)]

\* movePosition(appData, positionId, fromServiceId, toServiceId)
movePosition(data, positionId, fromServiceId, toServiceId) ==
  LET from == Find(data.services, fromServiceId)
      to == Find(data.services, toServiceId)
  IN IF from = 0 \/ to = 0 \/ fromServiceId = toServiceId THEN data
     ELSE LET fromService == data.services[from]
              toService == data.services[to]
              found == Find(fromService.portfolio.positions, positionId)
          IN IF found = 0 THEN data
             ELSE LET position == fromService.portfolio.positions[found]
                      newPositionId == toService.portfolio.nextPositionId
                      movedPosition ==
                        [position EXCEPT
                           !.id = newPositionId,
                           !.trades = Map(@, LAMBDA t : [t EXCEPT !.positionId = newPositionId])]
                      moved(service) ==
                        IF service.id = fromServiceId
                          THEN [service EXCEPT !.portfolio.positions =
                                  SelectSeq(@, LAMBDA p : p.id # positionId)]
                        ELSE IF service.id = toServiceId
                          THEN [service EXCEPT
                                  !.portfolio.positions = Append(@, movedPosition),
                                  !.portfolio.nextPositionId = PlusOne(newPositionId)]
                        ELSE service
                  IN [data EXCEPT !.services = Map(@, moved)]

\* the call made last, and whether it threw
Called(name, service, positionId, traded, threw) ==
  [op |-> name, service |-> service, positionId |-> positionId, symbol |-> traded,
   threw |-> threw]

\* one more change of the stored data; the parser and the sync manager are
\* at rest
Operation ==
  /\ ops < MaxOps
  /\ ops' = ops + 1
  /\ UNCHANGED <<parser, sync>>

CreateService ==
  /\ Len(appData.services) < MaxServices
  /\ appData' = createService(appData, Len(appData.services) + 1)
  /\ call' = Called("createService", Len(appData.services) + 1, Null, "", FALSE)
  /\ Operation

\* handleAddTrade once the text is parsed: the position number entered, or
\* nextPositionId when none is; an error thrown is caught and shown
AddTrade ==
  \E service \in DOMAIN appData.services, traded \in Symbols :
    LET portfolio == appData.services[service].portfolio
    IN \E positionId \in PositionIds \cup {portfolio.nextPositionId} :
         LET trade == [id |-> ops + 1, symbol |-> traded, positionId |-> Null]
             updatedPortfolio == addTradeToPosition(portfolio, trade, positionId)
             threw == "error" \in DOMAIN updatedPortfolio
         IN /\ appData' = IF threw THEN appData
                          ELSE updateService(appData, appData.services[service].id,
                                             updatedPortfolio)
            /\ call' = Called("addTradeToPosition", service, positionId, traded, threw)
            /\ Operation

\* the handlers of the service page change the portfolio of the service
\* shown, at a position that is listed
ClosePosition ==
  \E service \in DOMAIN appData.services :
    LET portfolio == appData.services[service].portfolio
    IN \E i \in DOMAIN portfolio.positions :
         LET positionId == portfolio.positions[i].id
         IN /\ appData' = updateService(appData, appData.services[service].id,
                                        closePosition(portfolio, positionId))
            /\ call' = Called("closePosition", service, positionId, "", FALSE)
            /\ Operation

ReopenPosition ==
  \E service \in DOMAIN appData.services :
    LET portfolio == appData.services[service].portfolio
    IN \E i \in DOMAIN portfolio.positions :
         LET positionId == portfolio.positions[i].id
         IN /\ appData' = updateService(appData, appData.services[service].id,
                                        reopenPosition(portfolio, positionId))
            /\ call' = Called("reopenPosition", service, positionId, "", FALSE)
            /\ Operation

DeletePosition ==
  \E service \in DOMAIN appData.services :
    LET portfolio == appData.services[service].portfolio
    IN \E i \in DOMAIN portfolio.positions :
         LET positionId == portfolio.positions[i].id
         IN /\ appData' = updateService(appData, appData.services[service].id,
                                        deletePosition(portfolio, positionId))
            /\ call' = Called("deletePosition", service, positionId, "", FALSE)
            /\ Operation

DeleteTrade ==
  \E service \in DOMAIN appData.services :
    LET portfolio == appData.services[service].portfolio
    IN \E i \in DOMAIN portfolio.positions :
         \E k \in DOMAIN portfolio.positions[i].trades :
           LET positionId == portfolio.positions[i].id
               tradeId == portfolio.positions[i].trades[k].id
           IN /\ appData' = updateService(appData, appData.services[service].id,
                                          deleteTrade(portfolio, positionId, tradeId))
              /\ call' = Called("deleteTrade", service, positionId, "", FALSE)
              /\ Operation

MovePosition ==
  \E service \in DOMAIN appData.services, to \in DOMAIN appData.services :
    \E i \in DOMAIN appData.services[service].portfolio.positions :
      LET positionId == appData.services[service].portfolio.positions[i].id
      IN /\ service # to
         /\ appData' = movePosition(appData, positionId, appData.services[service].id,
                                    appData.services[to].id)
         /\ call' = Called("movePosition", service, positionId, "", FALSE)
         /\ Operation

NextStorage == \/ CreateService
               \/ AddTrade
               \/ ClosePosition
               \/ ReopenPosition
               \/ DeletePosition
               \/ DeleteTrade
               \/ MovePosition

SpecStorage == InitSync /\ [][NextStorage]_vars

(***************************************************************************)
(* The properties.                                                         *)
(***************************************************************************)
Returned == pc = "done" /\ result.kind = "trade"

Failed == pc = "done" /\ result = ReturnNull

Quantity(k) == result.trade.legs[k].quantity

RECURSIVE SumOfQuantities(_)
SumOfQuantities(k) == IF k = 0 THEN 0 ELSE SumOfQuantities(k - 1) + Quantity(k)

\* C1: whatever the input, the call ends with a Trade or with null and never
\* with an exception; an error raised inside (trim called on a value that is
\* no string) ends as null
C1_NullOrTradeNeverThrows ==
  /\ result.kind \in {"pending", "null", "trade"}
  /\ pc = "done" => result.kind \in {"null", "trade"}
  /\ (pc = "done" /\ input.type # "string") => result = ReturnNull

C1_Witness == pc = "done" /\ input.type # "string" /\ result = ReturnNull

\* /\b(BUY|SELL)\b/i: BUY or SELL standing as a word of its own
actionTokenPattern == RegExp(Cat(<<Wb, BuyOrSell, Wb>>))

NoText == trim(input.value) = ""
NoActionToken == ~Test(actionTokenPattern, input.value)
NoPriceToken == ~Test(pricePattern, normalize(input.value))
NoSymbol == symbolOf(normalize(stripLeading(trim(input.value)))) = ""

\* C2: the result is null when the input is empty or blank, holds no BUY or
\* SELL token, holds no @<number> price token, or no symbol pattern matches
C2_FailureConditions ==
  (pc = "done" /\ input.type = "string" /\ result # ReturnNull)
    => ~(NoText \/ NoActionToken \/ NoPriceToken \/ NoSymbol)

C2_Witness ==
  /\ Failed
  /\ input.type = "string"
  /\ NoSymbol /\ ~NoText /\ ~NoActionToken /\ ~NoPriceToken

Legs == result.trade.legs

\* the sign of the returned action and the returned total quantity
Sign == IF result.trade.action = "BUY" THEN 1 ELSE 0 - 1
Total == result.trade.totalQuantity

Quantities == [k \in 1..Len(Legs) |-> Quantity(k)]

\* the ratio that leg k (from 1) reads: the ratios are taken in a cycle
RatioOf(k) == ratios[((k - 1) % Len(ratios)) + 1]
NoRatios == ratios = Null
UnsignedRatios == ratios # Null /\ \A k \in 1..Len(ratios) : ratios[k] >= 0
SignedRatios == ratios # Null /\ \E k \in 1..Len(ratios) : ratios[k] < 0

NoQuantityToken == ~Test(qtyPattern, normalized)

\* the date-shaped tokens of the text, and those with a month of the table
DateTokens == ExecAll(datePattern, normalized)
KnownMonth(token) == toUpperCase(token.group[2]) \in DOMAIN MONTHS
KnownTokens(tokens) == {k \in 1..Len(tokens) : KnownMonth(tokens[k])}
BadMonthToken(tokens) == \E k \in 1..Len(tokens) : ~KnownMonth(tokens[k])
Todays == {Today(clock) : clock \in 0..now}

UnknownMonthExample == "BUY +1 XYZ 100 5 XXX 26 50 CALL @1.00 LMT"

C4_EveryVerticalHasInverseLegs ==
  (Returned /\ result.trade.spreadType = "VERTICAL" /\ Len(Legs) >= 2) =>
    /\ Quantity(1) = Sign * Total
    /\ Quantity(2) = 0 - Sign * Total

\* C4: a VERTICAL trade of exactly two legs and no ratio array has the legs
\* +total, -total for BUY and -total, +total for SELL, which sum to zero; a
\* VERTICAL trade of another leg count and no ratio array has every leg on the
\* side of the action
C4_TwoLegVerticalHasInverseLegs ==
  (Returned /\ result.trade.spreadType = "VERTICAL" /\ NoRatios) =>
    IF Len(Legs) = 2
    THEN /\ Quantity(1) = Sign * Total
         /\ Quantity(2) = 0 - Sign * Total
         /\ SumOfQuantities(2) = 0
    ELSE \A k \in 1..Len(Legs) : Quantity(k) = Sign * Total

C4_Witness ==
  /\ Returned
  /\ result.trade.spreadType = "VERTICAL" /\ NoRatios /\ Len(Legs) = 2
  /\ result.trade.action = "SELL"
  /\ Quantities = <<0 - Total, Total>>
  /\ Total = MaxQty

RollSigns == [BUY |-> <<1, 0 - 1, 0 - 1, 1>>, SELL |-> <<0 - 1, 1, 1, 0 - 1>>]

RollExample ==
  "SELL -20 VERT ROLL RUT 100 (Weeklys) 20 FEB 26/30 JAN 26 2730/2740/2730/2740 CALL @.40 LMT"

\* C5: a ROLL trade with no ratio array has leg i = pattern[i mod 4] x total,
\* the pattern being -1,+1,+1,-1 for SELL and +1,-1,-1,+1 for BUY; four legs sum
\* to zero, and SELL -20 VERT ROLL gives -20,+20,+20,-20
C5_RollPattern ==
  (Returned /\ result.trade.spreadType = "ROLL" /\ NoRatios) =>
    /\ \A k \in 1..Len(Legs) :
         Quantity(k) = RollSigns[result.trade.action][((k - 1) % 4) + 1] * Total
    /\ Len(Legs) = 4 => SumOfQuantities(4) = 0
    /\ input.value = RollExample => Quantities = <<0 - 20, 20, 20, 0 - 20>>

C5_Witness ==
  /\ Returned
  /\ result.trade.spreadType = "ROLL" /\ NoRatios
  /\ input.value = RollExample
  /\ Quantities = <<0 - 20, 20, 20, 0 - 20>>

CalendarExample ==
  "SELL -4 CALENDAR SHOP 100 (Weeklys) 13 FEB 26/16 JAN 26 160 PUT @6.75 LMT"

\* C6: a CALENDAR or DIAGONAL trade with no ratio array has its first leg at
\* -total for SELL and +total for BUY and its second leg at the opposite; the
\* SHOP calendar gives -4 expiring 13 FEB 26 and +4 expiring 16 JAN 26
C6_CalendarLegs ==
  (Returned /\ result.trade.spreadType \in {"CALENDAR", "DIAGONAL"} /\ NoRatios) =>
    /\ Quantity(1) = Sign * Total
    /\ Len(Legs) >= 2 => Quantity(2) = 0 - Sign * Total
    /\ input.value = CalendarExample =>
         /\ Quantities = <<0 - 4, 4>>
         /\ Legs[1].expiration = [year |-> 2026, month |-> MONTHS.FEB, day |-> 13]
         /\ Legs[2].expiration = [year |-> 2026, month |-> MONTHS.JAN, day |-> 16]

C6_Witness ==
  /\ Returned
  /\ result.trade.spreadType = "CALENDAR" /\ NoRatios
  /\ input.value = CalendarExample
  /\ Quantities = <<0 - 4, 4>>

BackratioExample == "SELL -2 1/3 BACKRATIO AMZN 100 16 JAN 26 247.5/260 CALL @-1.49 LMT"

\* C7: a BACKRATIO trade whose ratios hold no negative entry has its first leg
\* at -ratio x sign x total and every other leg at +ratio x sign x total, the
\* sign being +1 for BUY and -1 for SELL; SELL -2 1/3 BACKRATIO gives +2, -6
C7_BackratioLegs ==
  (Returned /\ result.trade.spreadType = "BACKRATIO" /\ UnsignedRatios) =>
    /\ Quantity(1) = 0 - RatioOf(1) * Sign * Total
    /\ \A k \in 2..Len(Legs) : Quantity(k) = RatioOf(k) * Sign * Total
    /\ input.value = BackratioExample => Quantities = <<2, 0 - 6>>

C7_Witness ==
  /\ Returned
  /\ result.trade.spreadType = "BACKRATIO" /\ UnsignedRatios
  /\ input.value = BackratioExample
  /\ Quantities = <<2, 0 - 6>>

CustomExample ==
  "SELL -7 2/2/-1/-1 CUSTOM GOOGL 100 (Weeklys) 6 FEB 26/6 FEB 26/30 JAN 26/30 JAN 26 355/295/355/295 CALL/PUT/CALL/PUT @11.99 LMT GTC"

\* C8: with a ratio array that holds a negative entry, or with any ratio array
\* when the type is neither BACKRATIO nor BUTTERFLY, every leg is
\* ratio x sign x total; explicit signs go before the BACKRATIO and BUTTERFLY
\* rules, and SELL -7 2/2/-1/-1 CUSTOM gives -14,-14,+7,+7
C8_RatioTimesActionSign ==
  (Returned /\ ratios # Null
     /\ (SignedRatios \/ result.trade.spreadType \notin {"BACKRATIO", "BUTTERFLY"})) =>
    /\ \A k \in 1..Len(Legs) : Quantity(k) = RatioOf(k) * Sign * Total
    /\ input.value = CustomExample => Quantities = <<0 - 14, 0 - 14, 7, 7>>

C8_Witness ==
  /\ Returned
  /\ SignedRatios
  /\ result.trade.spreadType = "BACKRATIO"
  /\ ratios = <<1, 0 - 3>>
  /\ Quantities = <<Sign * Total, 0 - 3 * Sign * Total>>

\* C9 as stated: in a BUTTERFLY trade with unsigned ratios the first and the
\* last leg are +ratio for BUY and -ratio for SELL and every leg between them
\* the inverse; with no ratios and 3 legs the legs are +1,-2,+1 x total for BUY
\* and -1,+2,-1 x total for SELL
C9_ButterflyWingsAndBody ==
  (Returned /\ result.trade.spreadType = "BUTTERFLY") =>
    /\ UnsignedRatios =>
         \A k \in 1..Len(Legs) :
           Quantity(k) = (IF k = 1 \/ k = Len(Legs) THEN 1 ELSE 0 - 1)
                           * RatioOf(k) * Sign * Total
    /\ (NoRatios /\ Len(Legs) = 3) =>
         Quantities = <<Sign * Total, 0 - 2 * Sign * Total, Sign * Total>>

\* the leg count that belongs to a spread type
IntrinsicLegCount ==
  [SINGLE |-> 1, VERTICAL |-> 2, CALENDAR |-> 2, DIAGONAL |-> 2, BUTTERFLY |-> 3,
   CONDOR |-> 4, IRON_CONDOR |-> 4, ROLL |-> 4]

\* C10 as stated: a returned Trade has as many legs as its spread type has by
\* nature: 1 for SINGLE, 2 for VERTICAL, CALENDAR and DIAGONAL, 3 for BUTTERFLY
\* unless there is a ratio array, 4 for CONDOR, IRON_CONDOR and ROLL
C10_LegCountIsIntrinsic ==
  (Returned /\ result.trade.spreadType \in DOMAIN IntrinsicLegCount
     /\ ~(result.trade.spreadType = "BUTTERFLY" /\ ratios # Null)) =>
    Len(Legs) = IntrinsicLegCount[result.trade.spreadType]

LegActions == [k \in 1..Len(Legs) |-> Legs[k].legAction]

\* C11: the open/close tag of a leg: in a ROLL the legs 0 and 1 are OPEN and
\* the later legs CLOSE; in a CALENDAR or DIAGONAL sold, leg 0 is OPEN and
\* leg 1 CLOSE; in every other case, a CALENDAR or DIAGONAL bought included,
\* no leg has a tag
C11_LegActionTags ==
  Returned =>
    LET type == result.trade.spreadType
    IN  /\ type = "ROLL" =>
             \A k \in 1..Len(Legs) : Legs[k].legAction = IF k <= 2 THEN "OPEN" ELSE "CLOSE"
        /\ (type \in {"CALENDAR", "DIAGONAL"} /\ result.trade.action = "SELL") =>
             /\ Legs[1].legAction = "OPEN"
             /\ Len(Legs) >= 2 => Legs[2].legAction = "CLOSE"
        /\ (type \notin {"ROLL", "CALENDAR", "DIAGONAL"}
              \/ (type \in {"CALENDAR", "DIAGONAL"} /\ result.trade.action = "BUY")) =>
             \A k \in 1..Len(Legs) : Legs[k].legAction = "undefined"
        /\ input.value = RollExample => LegActions = <<"OPEN", "OPEN", "CLOSE", "CLOSE">>
        /\ input.value = CalendarExample => LegActions = <<"OPEN", "CLOSE">>

C11_Witness ==
  /\ Returned
  /\ result.trade.spreadType = "DIAGONAL"
  /\ result.trade.action = "BUY"
  /\ LegActions = <<"undefined", "undefined">>

\* the keywords in the order they are looked for, each with the type it selects
KeywordOrder ==
  << <<"ROLL", "ROLL">>, <<"CALENDAR", "CALENDAR">>, <<"DIAGONAL", "DIAGONAL">>,
     <<"VERT", "VERTICAL">>, <<"BUTTERFLY", "BUTTERFLY">>, <<"FLY", "BUTTERFLY">>,
     <<"CONDOR", "CONDOR">>, <<"IRON CONDOR", "IRON_CONDOR">>, <<"IC", "IRON_CONDOR">>,
     <<"STRADDLE", "STRADDLE">>, <<"STRANGLE", "STRANGLE">>, <<"CUSTOM", "CUSTOM">>,
     <<"BACKRATIO", "BACKRATIO">>, <<"RATIO", "RATIO">> >>

KeywordsFound(text) == {k \in 1..Len(KeywordOrder) : includes(text, KeywordOrder[k][1])}

First(S) == CHOOSE k \in S : \A other \in S : k <= other

\* C12: the spread type is that of the first keyword, in the order ROLL,
\* CALENDAR, DIAGONAL, VERT, BUTTERFLY/FLY, CONDOR, IRON CONDOR/IC, STRADDLE,
\* STRANGLE, CUSTOM, BACKRATIO, RATIO, found in the upper-cased text (VERT ROLL
\* is a ROLL); with no keyword it is SINGLE for 1 leg, VERTICAL for 2,
\* IRON_CONDOR for 4 and CUSTOM for any other count
C12_SpreadTypeByFirstKeyword ==
  Returned =>
    LET found == KeywordsFound(toUpperCase(normalized))
    IN  /\ found # {} => result.trade.spreadType = KeywordOrder[First(found)][2]
        /\ found = {} =>
             result.trade.spreadType =
               IF Len(Legs) = 1 THEN "SINGLE"
               ELSE IF Len(Legs) = 2 THEN "VERTICAL"
               ELSE IF Len(Legs) = 4 THEN "IRON_CONDOR"
               ELSE "CUSTOM"
        /\ input.value = RollExample => result.trade.spreadType = "ROLL"

C12_Witness ==
  /\ Returned
  /\ {4, 1} \subseteq KeywordsFound(toUpperCase(normalized))
  /\ result.trade.spreadType = "ROLL"

\* IC standing as a word of its own
standaloneIC == RegExp(Cat(<<Wb, Lit("IC"), Wb>>))

\* C13 as stated: IC selects IRON_CONDOR only as a token of its own: a
\* single-option order with no spread keyword, in which the letters IC occur
\* only inside another word, is never an IRON_CONDOR
C13_ICOnlyAsStandaloneToken ==
  (Returned /\ Len(Legs) = 1
     /\ KeywordsFound(toUpperCase(normalized)) \subseteq {9}
     /\ ~Test(standaloneIC, normalized)) =>
    result.trade.spreadType # "IRON_CONDOR"

\* the same string has been parsed twice
ParsedTwice == pc = "done" /\ previous # NoCall

\* a Trade without its id, its tradeDate and the expirations of its legs
Stable(trade) ==
  [action |-> trade.action, totalQuantity |-> trade.totalQuantity, symbol |-> trade.symbol,
   multiplier |-> trade.multiplier, isWeekly |-> trade.isWeekly,
   spreadType |-> trade.spreadType, price |-> trade.price, orderType |-> trade.orderType,
   isGTC |-> trade.isGTC, rawInput |-> trade.rawInput,
   legs |-> [k \in 1..Len(trade.legs) |->
               [quantity |-> trade.legs[k].quantity, strike |-> trade.legs[k].strike,
                optionType |-> trade.legs[k].optionType,
                legAction |-> trade.legs[k].legAction]]]

Expirations(trade) == [k \in 1..Len(trade.legs) |-> trade.legs[k].expiration]

\* C14 as stated: two parses of one string, at any two clock values, give
\* Trades equal in every field, the expiration of every leg included, but id
\* and tradeDate
C14_TwoParsesEqualButIdAndTradeDate ==
  (ParsedTwice /\ Returned) =>
    /\ previous.kind = "trade"
    /\ Stable(previous.trade) = Stable(result.trade)
    /\ Expirations(previous.trade) = Expirations(result.trade)

\* C14: two parses of one string, at any two clock values, both fail or give
\* Trades equal in every field but id, tradeDate and, when the string holds no
\* valid date, the expiration of every leg, which is the date of the parse
C14_TwoParsesEqualButClockReadings ==
  ParsedTwice =>
    /\ previous.kind = result.kind
    /\ Returned =>
         /\ Stable(previous.trade) = Stable(result.trade)
         /\ dates # << >> => Expirations(previous.trade) = Expirations(result.trade)
         /\ dates = << >> =>
              /\ \A k \in 1..Len(Legs) : Legs[k].expiration \in Todays
              /\ \A k \in 1..Len(Legs) : previous.trade.legs[k].expiration \in Todays

C14_Witness ==
  /\ ParsedTwice
  /\ Returned
  /\ dates = << >>
  /\ previous.trade.tradeDate # result.trade.tradeDate
  /\ Stable(previous.trade) = Stable(result.trade)
  /\ Expirations(previous.trade) # Expirations(result.trade)

IsSuffix(r, v) == Len(r) <= Len(v) /\ SubSeq(v, Len(v) - Len(r) + 1, Len(v)) = r

EscapedExample == "  SELL \\-2 CL 100 20 MAR 26 85 CALL @\\-3.55 LMT  "

\* C15 as stated: rawInput is the input with only the text before the first
\* action token removed: nothing is removed at the end
C15_RawInputIsInputWithoutLeadingText ==
  Returned =>
    /\ IsSuffix(result.trade.rawInput, input.value)
    /\ Test(actionPattern, result.trade.rawInput)

\* C15: rawInput is the input with the text before the first action token and
\* the white space at the end removed; every character between, backslash
\* escapes included, is kept as it is
C15_RawInputIsTrimmedInputWithoutLeadingText ==
  Returned =>
    LET v == input.value
        r == result.trade.rawInput
    IN  /\ Test(actionPattern, r)
        /\ CharAt(r, Len(r)) \notin WhiteSpace
        /\ \E p \in 0..(Len(v) - Len(r)) :
             /\ SubSeq(v, p + 1, p + Len(r)) = r
             /\ \A k \in (p + Len(r) + 1)..Len(v) : CharAt(v, k) \in WhiteSpace
             /\ Search(buyOrSellPattern, SubSeq(v, 1, p + Len(r))) = p

C15_Witness ==
  /\ Returned
  /\ input.value = EscapedExample
  /\ result.trade.rawInput = "SELL \\-2 CL 100 20 MAR 26 85 CALL @\\-3.55 LMT"

\* C16 as stated: every returned Trade has a totalQuantity of 1 or more and
\* no leg of quantity zero
C16_NonDegenerateTrade ==
  Returned =>
    /\ Total >= 1
    /\ \A k \in 1..Len(Legs) : Quantity(k) # 0

\* the quantities a leg can have in one spread: 1, 2 or a ratio, either sign
Unscaled ==
  {1, 2, 0 - 1, 0 - 2}
    \cup (IF NoRatios THEN {}
          ELSE {ratios[k] : k \in 1..Len(ratios)} \cup {0 - ratios[k] : k \in 1..Len(ratios)})

\* C17: the quantity of every leg is its quantity in one spread (1, 2 or a
\* ratio, signed) times totalQuantity, so it is a multiple of totalQuantity
C17_LegQuantityIsScaled ==
  Returned =>
    \A k \in 1..Len(Legs) :
      /\ Quantity(k) = legQty(k - 1, result.trade.action, result.trade.spreadType, ratios,
                              Len(Legs)) * Total
      /\ \E unit \in Unscaled : Quantity(k) = unit * Total
      /\ Total > 0 => Quantity(k) % Total = 0

C17_Witness ==
  /\ Returned
  /\ NoRatios
  /\ Total = MaxQty
  /\ result.trade.spreadType = "BUTTERFLY"
  /\ Quantities = <<Sign * Total, 0 - 2 * Sign * Total, Sign * Total>>

\* the entry of a non-empty array that leg k (from 1) reads in a cycle
Cycled(array, k) == array[((k - 1) % Len(array)) + 1]

Largest(S) == CHOOSE n \in S : \A other \in S : n >= other

ArrayLengths ==
  {Len(dates), Len(strikes), Len(optionTypes), IF NoRatios THEN 1 ELSE Len(ratios)}

\* a ROLL of 4 legs with 2 dates: the dates go to the legs in pairs
PairedRoll == result.trade.spreadType = "ROLL" /\ Len(dates) = 2 /\ Len(Legs) = 4

\* C20 as stated: the leg count is the largest of the numbers of valid dates,
\* strikes, option types and ratios (1 with no ratios), and every leg reads
\* each array in a cycle
C20_LegCountAndCyclicArrays ==
  Returned =>
    /\ Len(Legs) = Largest(ArrayLengths)
    /\ Len(Legs) >= 1
    /\ \A k \in 1..Len(Legs) :
         /\ dates # << >> => Legs[k].expiration = Cycled(dates, k)
         /\ strikes # << >> => Legs[k].strike = Cycled(strikes, k)
         /\ optionTypes # << >> => Legs[k].optionType = Cycled(optionTypes, k)

\* C20: the leg count is the largest of the numbers of valid dates, strikes,
\* option types and ratios (1 with no ratios), so at least 1; every leg reads
\* the option types in a cycle, the dates in a cycle unless the trade is a
\* ROLL of 4 legs with 2 dates (legs 0-1 the first date, legs 2-3 the second),
\* and the strikes in a cycle unless the strike read is 0 (then the first
\* strike)
C20_LegCountAndArrays ==
  Returned =>
    /\ Len(Legs) = Largest(ArrayLengths)
    /\ Len(Legs) >= 1
    /\ \A k \in 1..Len(Legs) :
         /\ (dates # << >> /\ ~PairedRoll) => Legs[k].expiration = Cycled(dates, k)
         /\ PairedRoll => Legs[k].expiration = dates[IF k <= 2 THEN 1 ELSE 2]
         /\ strikes # << >> =>
              Legs[k].strike = IF ~Falsy(Cycled(strikes, k)) THEN Cycled(strikes, k)
                               ELSE strikes[1]
         /\ optionTypes # << >> => Legs[k].optionType = Cycled(optionTypes, k)

C20_Witness ==
  /\ Returned
  /\ input.value = RollExample
  /\ PairedRoll
  /\ Len(strikes) = 4 /\ Len(optionTypes) = 1
  /\ Expirations(result.trade) = <<dates[1], dates[1], dates[2], dates[2]>>

\* the data that writes to the remote sheet have completed with
WrittenData == {remote[k] : k \in 1..Len(remote)}

\* C18: under any interleaving of scheduleSync calls, debounce-timer firings
\* and completions of remote calls that all succeed, the data of the most
\* recent scheduleSync call is eventually written to the remote sheet, a call
\* made while an earlier executeSync is in flight included.
C18_LatestScheduledDataIsWritten == <>[](latest # Null => latest \in WrittenData)

\* C19: when forceSync(data) resolves, a write of that data to the remote
\* sheet has completed, even if a sync was in progress when it was called.
C19_ForceSyncResolvesAfterItsWrite == \A data \in resolved : data \in WrittenData

\* C21: with at least one strike extracted, leg i's strike is
\* strikes[i mod |strikes|], whatever the extracted value (a 0 that is not the
\* first strike included), and a leg's strike is 0 only when no strike was
\* extracted (or the strike it reads is itself 0).
C21_LegStrikeIsCyclicStrike ==
  Returned =>
    \A k \in 1..Len(Legs) :
      /\ strikes # << >> => Legs[k].strike = Cycled(strikes, k)
      /\ Legs[k].strike = Zero => (strikes = << >> \/ Cycled(strikes, k) = Zero)

\* the date that a date token with a known month stands for: the year is
\* 2000 + YY
DateOfToken(token) ==
  NewDate(2000 + parseInt(token.group[3]), MONTHS[toUpperCase(token.group[2])],
          parseInt(token.group[1]))

\* C22: the parsed dates are those of the date tokens with a known month, from
\* left to right, the year read as 2000 + YY; with no parsed date every leg
\* expires at the current date; in a ROLL of 4 legs with exactly 2 dates the
\* legs 0-1 get the first date and the legs 2-3 the second; in every other
\* case leg i gets dates[i mod |dates|]
C22_LegExpirations ==
  Returned =>
    LET known == SelectSeq(DateTokens, KnownMonth)
        parsed == [k \in 1..Len(known) |-> DateOfToken(known[k])]
    IN  /\ dates = parsed
        /\ \A k \in 1..Len(Legs) :
             Legs[k].expiration \in
               IF parsed = << >> THEN Todays
               ELSE IF PairedRoll THEN {parsed[IF k <= 2 THEN 1 ELSE 2]}
               ELSE {Cycled(parsed, k)}
        /\ input.value = RollExample =>
             parsed = << [year |-> 2026, month |-> MONTHS.FEB, day |-> 20],
                         [year |-> 2026, month |-> MONTHS.JAN, day |-> 30] >>

C22_Witness ==
  /\ Returned
  /\ input.value = RollExample
  /\ Expirations(result.trade)
       = << [year |-> 2026, month |-> MONTHS.FEB, day |-> 20],
            [year |-> 2026, month |-> MONTHS.FEB, day |-> 20],
            [year |-> 2026, month |-> MONTHS.JAN, day |-> 30],
            [year |-> 2026, month |-> MONTHS.JAN, day |-> 30] >>

\* the action token at the start of the text and the signed integer right
\* after it
leadingQuantityPattern == RegExp(Cat(<<Bol, BuyOrSell, sp, Cap(Cat(<<sign, Plus(d)>>))>>))

\* C23 as stated: totalQuantity is the absolute value of the signed integer
\* that stands right after the leading action token; with no integer there
\* the parse fails, even when an action token followed by an integer stands
\* later in the text
C23_QuantityFollowsLeadingAction ==
  (pc = "done" /\ input.type = "string") =>
    LET found == Exec(leadingQuantityPattern, normalized)
    IN  IF found = NoMatch THEN result = ReturnNull
        ELSE Returned => Total = Abs(parseInt(found.group[1]))

\* CALL or PUT standing as a word of its own
optionTypeToken == RegExp(Cat(<<Wb, CallOrPut, Wb>>))

\* C24 as stated: an input with an action, a quantity, a price and a symbol
\* but no CALL or PUT token is parsed, and every leg is a CALL of strike 0
C24_NoOptionTypeMeansCallAtStrikeZero ==
  (pc = "done" /\ input.type = "string" /\ ~NoQuantityToken
     /\ ~Test(optionTypeToken, normalized)
     /\ ~(NoActionToken \/ NoPriceToken \/ NoSymbol)) =>
    /\ Returned
    /\ \A k \in 1..Len(Legs) : Legs[k].optionType = "CALL" /\ Legs[k].strike = Zero

FuturesExample == "BUY +2 /ESZ25 1/50 19 DEC 25 6000 CALL @52.60 MKT"

JoinedDatesExample == "SELL -4 CALENDAR SHOP 13 FEB 26/16 JAN 26 160 PUT @6.75 LMT"

\* two date tokens joined by "/"
joinedDatesPattern == RegExp(Cat(<<DateShape, Lit("/"), DateShape>>))

\* C25: the multiplier is M when a pair N/M stands right before a date token;
\* otherwise the bare integer right before a date token, a (Weeklys) marker
\* allowed between them; otherwise 100.  Two dates joined by "/" are not taken
\* for a pair N/M: 1/50 19 DEC 25 gives 50, 100 (Weeklys) 20 FEB 26/30 JAN 26
\* gives 100, and 13 FEB 26/16 JAN 26 with no integer before it gives 100
C25_Multiplier ==
  Returned =>
    LET pair == Exec(futuresMultiplierPattern, normalized)
        bare == Exec(equityMultiplierPattern, normalized)
    IN  /\ result.trade.multiplier =
             IF pair.found THEN parseInt(pair.group[2])
             ELSE IF bare.found THEN parseInt(bare.group[1])
             ELSE 100
        /\ Test(joinedDatesPattern, normalized) =>
             /\ ~pair.found
             /\ ~bare.found => result.trade.multiplier = 100
        /\ input.value = FuturesExample => result.trade.multiplier = 50
        /\ input.value = RollExample => result.trade.multiplier = 100
        /\ input.value = JoinedDatesExample => result.trade.multiplier = 100

C25_Witness ==
  /\ Returned
  /\ input.value = JoinedDatesExample
  /\ Test(joinedDatesPattern, normalized)
  /\ result.trade.multiplier = 100
  /\ Len(Legs) = 2

\* the string has been parsed without and then with a text before it
ParsedWithPrefix == pc = "done" /\ previous # NoCall /\ prefix # ""

\* C26 as stated: a text before the order that holds no BUY or SELL token and
\* ends in white space or punctuation does not change the outcome: both
\* parses fail, or both give Trades equal in every field, rawInput and the
\* expirations included, but id and tradeDate
C26_LeadingTextChangesNothing ==
  ParsedWithPrefix =>
    /\ previous.kind = result.kind
    /\ Returned =>
         /\ Stable(previous.trade) = Stable(result.trade)
         /\ Expirations(previous.trade) = Expirations(result.trade)

\* C26: a text before the order that holds no BUY or SELL token and ends in a
\* character that is no letter, digit or underscore does not change the
\* outcome: both parses fail, or both give Trades equal in every field,
\* rawInput included, but id, tradeDate and, when the string holds no valid
\* date, the expiration of every leg, which is the date of the parse
C26_LeadingTextBeforeWordBoundary ==
  (ParsedWithPrefix /\ CharAt(prefix, Len(prefix)) \notin WordChar) =>
    /\ previous.kind = result.kind
    /\ Returned =>
         /\ Stable(previous.trade) = Stable(result.trade)
         /\ dates # << >> => Expirations(previous.trade) = Expirations(result.trade)
         /\ dates = << >> =>
              /\ \A k \in 1..Len(Legs) : Legs[k].expiration \in Todays
              /\ \A k \in 1..Len(Legs) : previous.trade.legs[k].expiration \in Todays

C26_Witness ==
  /\ ParsedWithPrefix
  /\ Returned
  /\ prefix = "(Replacing #1005) "
  /\ input.value = prefix \o RollExample
  /\ result.trade.rawInput = RollExample
  /\ Stable(previous.trade) = Stable(result.trade)


\* C27: in a burst of scheduleSync calls, each less than debounceMs after the
\* one before, only the timer of the last call is left set, at most one timer
\* callback runs, it runs debounceMs or more after the last call and starts a
\* sync of the data of the last call, and nothing but that data is written.
C27_BurstIsCoalesced ==
  /\ \A t \in timeouts.debounce : t.id = calls
  /\ Len(fired) <= 1
  /\ \A i \in 1..Len(fired) :
       /\ fired[i].since >= DebounceTicks
       /\ fired[i].data = latest
       /\ ~fired[i].skipped
  /\ remote \in {<< >>, <<latest>>}

C27_Witness ==
  /\ calls = MaxCalls
  /\ Len(fired) = 1
  /\ remote = <<latest>>


\* C28: the retry count starts from zero for every new failure episode: the
\* first sync to fail, and every sync that fails right after a successful
\* one, is retried, and that retry is scheduled after retryDelayMs.
C28_SuccessRestoresRetryBudget ==
  \A i \in 1..Len(events) :
    /\ events[i].event = "failure"
    /\ i = 1 \/ events[i - 1].event = "success"
    => /\ events[i].retry
       /\ events[i].delay = SYNC_CONFIG.retryDelayMs


\* the portfolios of the services
Portfolios == {appData.services[s].portfolio : s \in DOMAIN appData.services}

\* C29: within every service's portfolio the position ids are pairwise
\* distinct and each is strictly less than the portfolio's nextPositionId.
C29_PositionIdsDistinctAndBelowNext ==
  \A portfolio \in Portfolios :
    /\ \A i, j \in DOMAIN portfolio.positions :
         i # j => portfolio.positions[i].id # portfolio.positions[j].id
    /\ \A i \in DOMAIN portfolio.positions :
         LessThan(portfolio.positions[i].id, portfolio.nextPositionId)

\* the position that the call made last names, in the portfolio given: its
\* index, or 0
Target(portfolio) == Find(portfolio.positions, call'.positionId)

\* C30, the call alone: addTradeToPosition throws and leaves the data as it
\* was whenever the first position of the id it names exists and has another
\* symbol or is closed.
C30_MismatchOrClosedIsRejected ==
  [][call' # Null /\ call'.op = "addTradeToPosition"
     => LET portfolio == appData.services[call'.service].portfolio
        IN Target(portfolio) # 0
           /\ (\/ portfolio.positions[Target(portfolio)].symbol # call'.symbol
               \/ ~portfolio.positions[Target(portfolio)].isOpen)
           => call'.threw /\ appData' = appData]_vars

\* C30: after an addTradeToPosition that did not throw, the position it
\* names has the symbol of the trade and is open, and so has every position
\* that holds the trade; in every position each trade has the symbol of the
\* position.
C30_NoTradeUnderAnotherSymbolOrClosed ==
  /\ call # Null /\ call.op = "addTradeToPosition" /\ ~call.threw
     => LET portfolio == appData.services[call.service].portfolio
            found == Find(portfolio.positions, call.positionId)
        IN /\ found # 0
           /\ \A i \in DOMAIN portfolio.positions :
                (i = found \/ \E k \in DOMAIN portfolio.positions[i].trades :
                                portfolio.positions[i].trades[k].id = ops)
                => /\ portfolio.positions[i].symbol = call.symbol
                   /\ portfolio.positions[i].isOpen
  /\ \A portfolio \in Portfolios :
       \A i \in DOMAIN portfolio.positions :
         \A k \in DOMAIN portfolio.positions[i].trades :
           portfolio.positions[i].trades[k].symbol = portfolio.positions[i].symbol

TypeOK == pc \in {"trim", "strip", "action", "quantity", "price", "flags", "symbol",
                  "arrays", "legs", "catch", "done"}
=============================================================================
